---- MODULE Spec2Model ----
(***************************************************************************)
(* Model of the GST reconciliation / report-generation engine of           *)
(* gstnxt_backend (app/services/gst_analysis_service.py) and of the run    *)
(* records it keeps (app/models.py, AnalysisResult).                       *)
(*                                                                         *)
(* Two specifications share the definitions below:                         *)
(*   Spec       the run orchestrator: uploads, start_analysis as the       *)
(*              steps between its database commits, the output directory;  *)
(*   MergeSpec  the pipeline _process_gst_data as a function of the        *)
(*              uploaded files, applied to inputs drawn from bounded sets. *)
(***************************************************************************)
EXTENDS Integers, Sequences, FiniteSets, TLC

VARIABLES
    uploads,      \* file_uploads table: sequence of FileUpload rows (query order)
    analyses,     \* analysis_results table: sequence of AnalysisResult rows
    disk,         \* output directory: output file name -> file content
    calls,        \* start_analysis invocations: position, locals, return value
    m_files,      \* MergeSpec: the uploads handed to _process_gst_data
    m_out,        \* MergeSpec: what _process_gst_data produced ("pending" before)
    v_call,       \* ValidateSpec: one call of _add_month_validation
    zip_call,     \* ZipSpec: one call of _read_worksheet_data on a bundle
    tmp_dir,      \* ZipSpec: the files in the directory of temporary files
    x_call,       \* SheetSpec: one call of _read_excel_worksheet
    s_call,       \* SortSpec: one evaluation of sorted(files, key=...)
    l_call,       \* LabelSpec: one call of _get_month_name
    st_call       \* StoreSpec: one call of validate_and_store_file

\* the variables of the specifications of single functions
unit_vars == <<v_call, zip_call, tmp_dir>>

\* the variables of the specifications of the functions without side effects
\* on the engine's state, and of the upload handler
fn_vars == <<x_call, s_call, l_call, st_call>>

vars ==
    <<uploads, analyses, disk, calls, m_files, m_out, v_call, zip_call, tmp_dir,
      x_call, s_call, l_call, st_call>>

(***************************************************************************)
(* Sequence helpers                                                        *)
(***************************************************************************)
Range(s) == {s[i] : i \in DOMAIN s}

RECURSIVE Concat(_)
\* pd.concat(list, ignore_index=True): the frames' rows one after another
Concat(ss) == IF ss = <<>> THEN <<>> ELSE Head(ss) \o Concat(Tail(ss))

(***************************************************************************)
(* Text: Python strings whose characters matter are tuples of characters.  *)
(***************************************************************************)
UpperChar(c) ==
    CASE c = "a" -> "A" [] c = "b" -> "B" [] c = "c" -> "C" [] c = "d" -> "D"
      [] c = "e" -> "E" [] c = "l" -> "L" [] c = "m" -> "M" [] c = "n" -> "N"
      [] c = "o" -> "O" [] c = "p" -> "P" [] c = "r" -> "R" [] c = "s" -> "S"
      [] c = "t" -> "T" [] c = "u" -> "U" [] c = "x" -> "X" [] c = "y" -> "Y"
      [] OTHER -> c

\* the element of a one-element set; {e(x) : x \in {v}} is e with x bound to
\* the value v, computed once
The(S) == CHOOSE x \in S : TRUE

\* Tuple(n, f): the sequence f of length n, each element evaluated once
Tuple(n, f) == SubSeq(f, 1, n)

\* str.upper()
Upper(s) == Tuple(Len(s), [i \in DOMAIN s |-> UpperChar(s[i])])

\* `a in b` on strings
IsSubstr(a, b) ==
    \E i \in 0..(Len(b) - Len(a)) : SubSeq(b, i + 1, i + Len(a)) = a

\* the characters of the sheet names and section keys the model uses
Chars(name) ==
    CASE name = "B2B"     -> <<"B", "2", "B">>
      [] name = "b2b"     -> <<"b", "2", "b">>
      [] name = "SEZ"     -> <<"S", "E", "Z">>
      [] name = "DE"      -> <<"D", "E">>
      [] name = "B2CL"    -> <<"B", "2", "C", "L">>
      [] name = "EXP"     -> <<"E", "X", "P">>
      [] name = "B2CS"    -> <<"B", "2", "C", "S">>
      [] name = "EXEMP"   -> <<"E", "X", "E", "M", "P">>
      [] name = "B2BA"    -> <<"B", "2", "B", "A">>
      [] name = "B2CLA"   -> <<"B", "2", "C", "L", "A">>
      [] name = "EXPA"    -> <<"E", "X", "P", "A">>
      [] name = "CDNR"    -> <<"C", "D", "N", "R">>
      [] name = "CDNUR"   -> <<"C", "D", "N", "U", "R">>
      [] name = "CDNRA"   -> <<"C", "D", "N", "R", "A">>
      [] name = "CDNURA"  -> <<"C", "D", "N", "U", "R", "A">>
      [] name = "B2CSA"   -> <<"B", "2", "C", "S", "A">>
      [] name = "AT"      -> <<"A", "T">>
      [] name = "ATADJ"   -> <<"A", "T", "A", "D", "J">>
      [] name = "ATA"     -> <<"A", "T", "A">>
      [] name = "ATADJA"  -> <<"A", "T", "A", "D", "J", "A">>
      [] name = "HSN"     -> <<"H", "S", "N">>
      [] name = "DOCS"    -> <<"D", "O", "C", "S">>
      [] name = "ECO"     -> <<"E", "C", "O">>
      [] name = "ECOA"    -> <<"E", "C", "O", "A">>
      [] name = "ISD"     -> <<"I", "S", "D">>
      [] name = "ISDA"    -> <<"I", "S", "D", "A">>
      [] name = "TDS"     -> <<"T", "D", "S">>
      [] name = "TDSA"    -> <<"T", "D", "S", "A">>
      [] name = "TCS"     -> <<"T", "C", "S">>
      [] name = "TCSA"    -> <<"T", "C", "S", "A">>
      [] name = "IMPG"    -> <<"I", "M", "P", "G">>
      [] name = "IMPGSEZ" -> <<"I", "M", "P", "G", "S", "E", "Z">>
      [] name = "Help"    -> <<"H", "e", "l", "p">>
      [] name = "B2C"     -> <<"B", "2", "C">>
      [] name = "B2B (4A)"  -> <<"B", "2", "B", " ", "(", "4", "A", ")">>
      [] name = "Table B2B" -> <<"T", "a", "b", "l", "e", " ", "B", "2", "B">>

(***************************************************************************)
(* Section taxonomy                                                        *)
(***************************************************************************)
Cfg(out, mcol, dcol, val) ==
    [output_name |-> out, month_column |-> mcol, date_column |-> dcol,
     validation_required |-> val]

\* Python None
None == "None"

\* the keys of GSTR1_WORKSHEETS in dict order
GSTR1_KEYS ==
    <<"B2B", "SEZ", "DE", "B2CL", "EXP", "B2CS", "EXEMP", "B2BA", "B2CLA",
      "EXPA", "CDNR", "CDNUR", "CDNRA", "CDNURA", "B2CSA", "AT", "ATADJ",
      "ATA", "ATADJA", "HSN", "DOCS">>

GSTR1_WORKSHEETS(k) ==
    CASE k = "B2B"    -> Cfg("Outward - b2b+sez+de", "R", "D", TRUE)
      [] k = "SEZ"    -> Cfg("Outward - b2b+sez+de", "R", "D", TRUE)
      [] k = "DE"     -> Cfg("Outward - b2b+sez+de", "R", "D", TRUE)
      [] k = "B2CL"   -> Cfg("Out - b2cl", "I", "A", TRUE)
      [] k = "EXP"    -> Cfg("Out - exp", "O", "C", TRUE)
      [] k = "B2CS"   -> Cfg("Out-b2cs", None, None, FALSE)
      [] k = "EXEMP"  -> Cfg("Out - exemp", None, None, FALSE)
      [] k = "B2BA"   -> Cfg("Out - b2ba", None, None, FALSE)
      [] k = "B2CLA"  -> Cfg("Out - b2cla", None, None, FALSE)
      [] k = "EXPA"   -> Cfg("Out - expa", None, None, FALSE)
      [] k = "CDNR"   -> Cfg("Outward - cdnr", "S", "D", TRUE)
      [] k = "CDNUR"  -> Cfg("Out - cdnur", "N", "C", TRUE)
      [] k = "CDNRA"  -> Cfg("Out-cdnra", "R", None, FALSE)
      [] k = "CDNURA" -> Cfg("Out-cdnura", "M", None, FALSE)
      [] k = "B2CSA"  -> Cfg("Out-b2csa", "J", None, FALSE)
      [] k = "AT"     -> Cfg("Out-at", "H", None, FALSE)
      [] k = "ATADJ"  -> Cfg("Out-atadj", "H", None, FALSE)
      [] k = "ATA"    -> Cfg("Out-ata", "J", None, FALSE)
      [] k = "ATADJA" -> Cfg("Out-atadja", "J", None, FALSE)
      [] k = "HSN"    -> Cfg("Out-hsn", "K", None, FALSE)
      [] k = "DOCS"   -> Cfg("Out-docs", "F", None, FALSE)

\* the keys of GSTR2A_WORKSHEETS in dict order
GSTR2A_KEYS ==
    <<"B2B", "B2BA", "CDNR", "CDNRA", "ECO", "ECOA", "ISD", "ISDA", "TDS",
      "TDSA", "TCS", "TCSA", "IMPG", "IMPGSEZ">>

\* the output group that is emitted as one combined sheet
COMBINED_OUTPUT == "Outward - b2b+sez+de"

ANALYSED == "Analysed and Generated"
NO_RECORDS == "Taxpayer has no records under this head. Hence, No analysis is required"
ERROR_STATUS == "Error in processing"

(***************************************************************************)
(* Filing-period calendar                                                  *)
(***************************************************************************)
MONTH_NAMES ==
    <<"Jan", "Feb", "Mar", "Apr", "May", "Jun",
      "Jul", "Aug", "Sep", "Oct", "Nov", "Dec">>

RECURSIVE Digits(_)
\* str(n) of an integer n >= 0: its decimal digits
Digits(n) == IF n < 10 THEN <<n>> ELSE Append(Digits(n \div 10), n % 10)

\* s[-2:]: the last two characters, the whole of a shorter string
LastTwo(s) == SubSeq(s, IF Len(s) > 2 THEN Len(s) - 1 ELSE 1, Len(s))

\* A period label f"{mon}-{yy}" is [mon, yy], yy the digits after the dash;
\* a label that is some other text (the file-name fallback, a cell of the
\* sheet's own Month column) is [raw].
Label(mon, yy, raw) == [mon |-> mon, yy |-> yy, raw |-> raw]

\* mutant: a month outside 1..12 is taken modulo 12
GetMonthName_Wraps(month, year) ==
    Label(MONTH_NAMES[((month - 1) % 12) + 1], LastTwo(Digits(year)), "")

\* _get_month_name: f"{month_names[month-1]}-{str(year)[-2:]}" / f"Invalid-{year}"
GetMonthName(month, year) ==
    IF 1 <= month /\ month <= 12
    THEN Label(MONTH_NAMES[month], LastTwo(Digits(year)), "")
    ELSE Label("Invalid", Digits(year), "")

\* mutant: the calendar month as the order within the year
GetFyMonthOrder_Calendar(upload) == upload.month

\* get_fy_month_order: Apr=1 ... Dec=9, Jan=10 ... Mar=12
GetFyMonthOrder(upload) ==
    IF upload.month >= 4 THEN upload.month - 3 ELSE upload.month + 9

\* the sort key of sorted(...): (x.year if x.month >= 4 else x.year + 1, order)
SortKey(upload) ==
    <<IF upload.month >= 4 THEN upload.year ELSE upload.year + 1,
      GetFyMonthOrder(upload)>>

\* Python's tuple comparison a <= b on sort keys
KeyLeq(a, b) == a[1] < b[1] \/ (a[1] = b[1] /\ a[2] <= b[2])

RECURSIVE InsertSorted(_, _)
\* u placed after every element whose key is <= its own (stable)
InsertSorted(sorted, u) ==
    IF sorted = <<>> THEN <<u>>
    ELSE IF KeyLeq(SortKey(Head(sorted)), SortKey(u))
         THEN <<Head(sorted)>> \o InsertSorted(Tail(sorted), u)
         ELSE <<u>> \o sorted

\* mutant: the files are processed in upload order
SortedUploads_Unsorted(files) == files

RECURSIVE SortedUploads(_)
\* sorted(files, key=...): stable, ascending by SortKey
SortedUploads(files) ==
    IF files = <<>> THEN <<>>
    ELSE InsertSorted(SortedUploads(SubSeq(files, 1, Len(files) - 1)),
                      files[Len(files)])

\* _extract_period_from_filename: the first MMYYYY digit run of the name, else
\* the first MM-YYYY, else the name without its extension.  A file name is
\* [mmyyyy, dashed, stem]: what each regular expression finds in it (<<>> when
\* it finds nothing) and the name with its extension removed.
ExtractPeriodFromFilename(fname) ==
    IF fname.mmyyyy # <<>> THEN GetMonthName(fname.mmyyyy[1], fname.mmyyyy[2])
    ELSE IF fname.dashed # <<>> THEN GetMonthName(fname.dashed[1], fname.dashed[2])
    ELSE Label("", <<>>, fname.stem)

(***************************************************************************)
(* File ingestion and sheet resolver                                       *)
(*                                                                         *)
(* A workbook is a sequence of sheets [name, rows]; rows are the rows      *)
(* below the header row, each a function from column header to cell.       *)
(* A row of a frame is [path, entry, sheet, n]: the row n of that sheet of *)
(* that entry of the file at that path (what the row is), cells: its own   *)
(* columns, Month and validation: the columns 'Month' and                  *)
(* 'Month Validation' the engine appends ("" while the column is absent).  *)
(***************************************************************************)
\* A cell is [t, v, a, b, c]: t = "nan" (empty), "str" (text v) or "date"
\* (a date text of shape v whose three digit groups are a, b, c as written).
Cell(t, v, a, b, c) == [t |-> t, v |-> v, a |-> a, b |-> b, c |-> c]
NaN == Cell("nan", "", 0, 0, 0)
Str(v) == Cell("str", v, 0, 0, 0)

\* a row of NaN only, which dropna(how='all') removes
IsBlankRow(cells) == \A c \in DOMAIN cells : cells[c] = NaN

\* mutant: only the sheet named as the key, ignoring case, matches
SheetMatches_ExactOnly(sheet, worksheet_name) ==
    Upper(Chars(sheet)) = Upper(Chars(worksheet_name))

\* the condition of the sheet loop of _read_excel_worksheet
SheetMatches(sheet, worksheet_name) ==
    LET s == Upper(Chars(sheet))
        w == Upper(Chars(worksheet_name))
    IN  s = w \/ IsSubstr(w, s) \/ IsSubstr(s, w)

RECURSIVE FirstMatch(_, _, _)
\* index of the first sheet, in workbook order, the loop breaks on; 0 if none
FirstMatch(sheets, i, worksheet_name) ==
    IF i > Len(sheets) THEN 0
    ELSE IF SheetMatches(sheets[i].name, worksheet_name) THEN i
    ELSE FirstMatch(sheets, i + 1, worksheet_name)

RECURSIVE DropBlank(_, _, _)
\* df.dropna(how='all'): the non-blank rows, in order, with where they came from
DropBlank(sheet, i, origin) ==
    IF i > Len(sheet.rows) THEN <<>>
    ELSE (IF IsBlankRow(sheet.rows[i]) THEN <<>>
          ELSE <<[path |-> origin[1], entry |-> origin[2], sheet |-> sheet.name,
                  n |-> i, cells |-> sheet.rows[i], Month |-> Label("", <<>>, ""),
                  validation |-> ""]>>)
         \o DropBlank(sheet, i + 1, origin)

\* _read_excel_worksheet: the cleaned rows of the first matching sheet;
\* <<>> stands for None (no sheet matched, or nothing left after cleaning)
ReadExcelWorksheet(sheets, worksheet_name, origin) ==
    LET i == FirstMatch(sheets, 1, worksheet_name)
    IN  IF i = 0 THEN <<>> ELSE DropBlank(sheets[i], 1, origin)

\* data['Month'] = period, only if the frame has no Month column of its own
TagMonth(data, period) ==
    Tuple(Len(data), [i \in DOMAIN data |->
        [path |-> data[i].path, entry |-> data[i].entry, sheet |-> data[i].sheet,
         n |-> data[i].n, cells |-> data[i].cells,
         Month |-> IF "Month" \in DOMAIN data[1].cells
                   THEN Label("", <<>>, data[i].cells["Month"].v)
                   ELSE period,
         validation |-> data[i].validation]])

RECURSIVE ReadZipEntries_AbortOnError(_, _, _)
\* the loop over the entries, left at the first entry that cannot be read
ReadZipEntries_AbortOnError(file, j, worksheet_name) ==
    IF j > Len(file.entries) THEN <<>>
    ELSE LET e == file.entries[j]
         IN  IF e.spreadsheet /\ ~e.readable THEN <<>>
             ELSE (IF e.spreadsheet
                      /\ ReadExcelWorksheet(e.sheets, worksheet_name,
                                            <<file.path, j>>) # <<>>
                   THEN TagMonth(ReadExcelWorksheet(e.sheets, worksheet_name,
                                                    <<file.path, j>>),
                                 ExtractPeriodFromFilename(e.ename))
                   ELSE <<>>)
                  \o ReadZipEntries_AbortOnError(file, j + 1, worksheet_name)

RECURSIVE ReadZipEntries(_, _, _)
\* the loop over the spreadsheet entries of a bundle
ReadZipEntries(file, j, worksheet_name) ==
    IF j > Len(file.entries) THEN <<>>
    ELSE LET e == file.entries[j]
             data == IF e.spreadsheet /\ e.readable
                     THEN ReadExcelWorksheet(e.sheets, worksheet_name,
                                             <<file.path, j>>)
                     ELSE <<>>
         IN  (IF data # <<>>
              THEN TagMonth(data, ExtractPeriodFromFilename(e.ename))
              ELSE <<>>)
             \o ReadZipEntries(file, j + 1, worksheet_name)

\* _read_worksheet_data: file is what is stored at an upload's file_path:
\* [path, zip, readable, fname, sheets] or [path, zip, readable, fname, entries]
ReadWorksheetData(file, worksheet_name) ==
    IF ~file.readable THEN <<>>
    ELSE IF file.zip THEN ReadZipEntries(file, 1, worksheet_name)
    ELSE LET data == ReadExcelWorksheet(file.sheets, worksheet_name,
                                        <<file.path, 0>>)
         IN  IF data # <<>>
             THEN TagMonth(data, ExtractPeriodFromFilename(file.fname))
             ELSE <<>>

(***************************************************************************)
(* Date-vs-period validator                                                *)
(***************************************************************************)
IsLeap(y) == (y % 4 = 0 /\ y % 100 # 0) \/ y % 400 = 0

DaysIn(m, y) ==
    IF m = 2 THEN (IF IsLeap(y) THEN 29 ELSE 28)
    ELSE IF m \in {4, 6, 9, 11} THEN 30 ELSE 31

\* datetime(year, month, day) does not raise ValueError
ValidDate(year, month, day) ==
    /\ 1 <= year /\ year <= 9999
    /\ 1 <= month /\ month <= 12
    /\ 1 <= day /\ day <= DaysIn(month, year)

\* The three date_patterns in order; the first that matches and gives a valid
\* date wins.  "dd/mm/yyyy" is matched by patterns 1 and 3, both reading
\* (day, month, year); "yyyy-mm-dd" by pattern 2; "d/m/yyyy" by pattern 3.
\* <<>> when no pattern gives a date.
ParseDate(cell) ==
    IF cell.t # "date" THEN <<>>
    ELSE IF cell.v \in {"dd/mm/yyyy", "d/m/yyyy"}
         THEN (IF ValidDate(cell.c, cell.b, cell.a)
               THEN <<cell.c, cell.b, cell.a>> ELSE <<>>)
    ELSE IF cell.v = "yyyy-mm-dd"
         THEN (IF ValidDate(cell.a, cell.b, cell.c)
               THEN <<cell.a, cell.b, cell.c>> ELSE <<>>)
    ELSE <<>>

\* the label one row gets
RowValidation(row, file_month, date_column) ==
    LET date_value == IF date_column \in DOMAIN row.cells
                      THEN row.cells[date_column] ELSE Str("")
        parsed == ParseDate(date_value)
    IN  IF date_value.t = "nan" \/ (date_value.t = "str" /\ date_value.v = "")
        THEN "NO DATE"
        ELSE IF parsed = <<>> THEN "INVALID DATE"
        ELSE IF GetMonthName(parsed[2], parsed[1]) = file_month
             THEN "CORRECT MONTH"
             ELSE "WRONG MONTH"

\* line 1044, data['Month Validation'] = validation_results, for one row: a
\* frame that has a column of that name already has it overwritten
SetValidation(row, label) ==
    [path |-> row.path, entry |-> row.entry, sheet |-> row.sheet, n |-> row.n,
     cells |-> IF "Month Validation" \in DOMAIN row.cells
               THEN [row.cells EXCEPT !["Month Validation"] = Str(label)]
               ELSE row.cells,
     Month |-> row.Month, validation |-> label]

\* the validator with a count of every row that is not CORRECT MONTH
AddMonthValidation_CountsAll(data, month_column, date_column) ==
    LET file_month == data[1].Month
        labelled ==
            Tuple(Len(data), [i \in DOMAIN data |->
                SetValidation(data[i],
                              RowValidation(data[i], file_month, date_column))])
    IN  [data |-> labelled,
         wrong |-> Cardinality({i \in DOMAIN labelled :
                                   labelled[i].validation # "CORRECT MONTH"})]

\* _add_month_validation: the frame with the 'Month Validation' column, and
\* the number of WRONG MONTH rows.  file_month is the Month of the first row
\* (a frame _read_worksheet_data returned always has the column Month).
AddMonthValidation(data, month_column, date_column) ==
    LET file_month == data[1].Month
        labelled ==
            Tuple(Len(data), [i \in DOMAIN data |->
                SetValidation(data[i],
                              RowValidation(data[i], file_month, date_column))])
    IN  [data |-> labelled,
         wrong |-> Cardinality({i \in DOMAIN labelled :
                                   labelled[i].validation = "WRONG MONTH"})]

(***************************************************************************)
(* Cross-month merge engine and report assembly                            *)
(*                                                                         *)
(* An upload is a FileUpload row [id, project_id, file_type, month, year,  *)
(* upload_status, file], file being the content stored at its file_path.   *)
(* A data sheet of the workbook is [title, rows, ref]: ref names the       *)
(* taxonomy entry whose reference text the subtitle shows.                 *)
(***************************************************************************)
Sheet(title, rows, ref) == [title |-> title, rows |-> rows, ref |-> ref]

\* An exception inside the try block of one section of the section loops:
\* raised when the section's frames are concatenated (lines 601, 697), or by
\* _create_formatted_worksheet while it writes the cells of the last data
\* row, after wb.create_sheet (line 843) added the sheet.  A fault names the
\* family, the section and the place.
SectionFaults ==
    {"GSTR1/B2BA/concat", "GSTR1/B2BA/sheet", "GSTR1/SEZ/concat",
     "GSTR2A/B2B/concat", "GSTR2A/B2B/sheet"}

\* where the fault makes that section raise: "concat", "sheet", or "" (not at
\* all).  The sections of the combined group create no sheet in their try
\* block, and a section without data reaches neither place.
RaisedAt(fault, file_type, k, data) ==
    IF data = <<>> THEN ""
    ELSE IF fault = "GSTR1/B2BA/concat" /\ file_type = "GSTR1" /\ k = "B2BA"
         THEN "concat"
    ELSE IF fault = "GSTR1/B2BA/sheet" /\ file_type = "GSTR1" /\ k = "B2BA"
         THEN "sheet"
    ELSE IF fault = "GSTR1/SEZ/concat" /\ file_type = "GSTR1" /\ k = "SEZ"
         THEN "concat"
    ELSE IF fault = "GSTR2A/B2B/concat" /\ file_type = "GSTR2A" /\ k = "B2B"
         THEN "concat"
    ELSE IF fault = "GSTR2A/B2B/sheet" /\ file_type = "GSTR2A" /\ k = "B2B"
         THEN "sheet"
    ELSE ""

\* the rows a sheet holds when the write of its last data row raised
PartialRows(data) == SubSeq(data, 1, Len(data) - 1)

\* lines 581-596: one file's frame for a family A section, validated when
\* the section asks for it; [data, wrong], data = <<>> when the file has none
Gstr1Monthly(upload, worksheet_name) ==
    The({IF monthly_data = <<>> THEN [data |-> <<>>, wrong |-> 0]
         ELSE IF cfg.validation_required /\ cfg.month_column # None
                 /\ cfg.date_column # None
              THEN AddMonthValidation(monthly_data, cfg.month_column,
                                      cfg.date_column)
              ELSE [data |-> monthly_data, wrong |-> 0] :
         cfg \in {GSTR1_WORKSHEETS(worksheet_name)},
         monthly_data \in {ReadWorksheetData(upload.file, worksheet_name)}})

RECURSIVE SumWrong(_)
SumWrong(ms) == IF ms = <<>> THEN 0 ELSE Head(ms).wrong + SumWrong(Tail(ms))

\* lines 575-601: the loop over the sorted files for one family A section
Gstr1Section(sorted_uploads, worksheet_name) ==
    The({[data |-> Concat(Tuple(Len(monthly), [i \in DOMAIN monthly |-> monthly[i].data])),
          files_with_data |-> Cardinality({i \in DOMAIN monthly :
                                             monthly[i].data # <<>>}),
          wrong |-> SumWrong(monthly)] :
         monthly \in {Tuple(Len(sorted_uploads), [i \in DOMAIN sorted_uploads |->
                          Gstr1Monthly(sorted_uploads[i], worksheet_name)])}})

\* the position of key k in a taxonomy
KeyIndex(keys, k) == CHOOSE i \in DOMAIN keys : keys[i] = k

\* mutant: the number of files with data is recorded as the record count
Gstr1Details_FilesAsRecords(sec) ==
    IF sec.raised # ""
    THEN [status |-> ERROR_STATUS, files_with_data |-> 0,
          total_records |-> 0, wrong_month_records |-> 0]
    ELSE IF sec.data # <<>>
    THEN [status |-> ANALYSED, files_with_data |-> sec.files_with_data,
          total_records |-> sec.files_with_data,
          wrong_month_records |-> sec.wrong]
    ELSE [status |-> NO_RECORDS, files_with_data |-> 0,
          total_records |-> 0, wrong_month_records |-> 0]

\* lines 615-642: the analysis_details entry of a section
Gstr1Details(sec) ==
    IF sec.raised # ""
    THEN [status |-> ERROR_STATUS, files_with_data |-> 0,
          total_records |-> 0, wrong_month_records |-> 0]
    ELSE IF sec.data # <<>>
    THEN [status |-> ANALYSED, files_with_data |-> sec.files_with_data,
          total_records |-> Len(sec.data), wrong_month_records |-> sec.wrong]
    ELSE [status |-> NO_RECORDS, files_with_data |-> 0,
          total_records |-> 0, wrong_month_records |-> 0]

RECURSIVE Gstr1OwnSheets(_, _)
\* line 611: the sheets of the sections that are not in the combined group,
\* in taxonomy order
Gstr1OwnSheets(sec, i) ==
    IF i > Len(GSTR1_KEYS) THEN <<>>
    ELSE LET k == GSTR1_KEYS[i]
             out == GSTR1_WORKSHEETS(k).output_name
         IN  (IF sec[i].data # <<>> /\ out # COMBINED_OUTPUT
                 /\ sec[i].raised # "concat"
              THEN <<Sheet(out,
                           IF sec[i].raised = "sheet"
                           THEN PartialRows(sec[i].data) ELSE sec[i].data,
                           <<"GSTR1", k>>)>>
              ELSE <<>>)
             \o Gstr1OwnSheets(sec, i + 1)

RECURSIVE Gstr1CombinedList(_, _)
\* lines 605-608: combined_sheets[output_name], in taxonomy order
Gstr1CombinedList(sec, i) ==
    IF i > Len(GSTR1_KEYS) THEN <<>>
    ELSE LET k == GSTR1_KEYS[i]
         IN  (IF sec[i].data # <<>> /\ sec[i].raised = ""
                 /\ GSTR1_WORKSHEETS(k).output_name = COMBINED_OUTPUT
              THEN <<sec[i].data>> ELSE <<>>)
             \o Gstr1CombinedList(sec, i + 1)

\* line 649: next(c for c in GSTR1_WORKSHEETS.values() if c['output_name'] == ...)
FirstKeyOfOutput(output_name) ==
    GSTR1_KEYS[CHOOSE i \in DOMAIN GSTR1_KEYS :
        /\ GSTR1_WORKSHEETS(GSTR1_KEYS[i]).output_name = output_name
        /\ \A j \in 1..(i - 1) :
              GSTR1_WORKSHEETS(GSTR1_KEYS[j]).output_name # output_name]

\* mutant: only the first contributing section reaches the combined sheet
Gstr1CombinedSheets_FirstOnly(sec) ==
    LET data_list == Gstr1CombinedList(sec, 1)
    IN  IF data_list = <<>> THEN <<>>
        ELSE <<Sheet(COMBINED_OUTPUT, Head(data_list),
                     <<"GSTR1", FirstKeyOfOutput(COMBINED_OUTPUT)>>)>>

\* lines 646-653: the combined sheet, if the group has data
Gstr1CombinedSheets(sec) ==
    LET data_list == Gstr1CombinedList(sec, 1)
    IN  IF data_list = <<>> THEN <<>>
        ELSE <<Sheet(COMBINED_OUTPUT, Concat(data_list),
                     <<"GSTR1", FirstKeyOfOutput(COMBINED_OUTPUT)>>)>>

\* lines 569-643: the loop over the sections; element i is the section
\* GSTR1_KEYS[i], with (raised) where its try block raised
Gstr1Sections(sorted_uploads, fault) ==
    Tuple(Len(GSTR1_KEYS), [i \in DOMAIN GSTR1_KEYS |->
        The({[data |-> s.data, files_with_data |-> s.files_with_data,
              wrong |-> s.wrong,
              raised |-> RaisedAt(fault, "GSTR1", GSTR1_KEYS[i], s.data)] :
             s \in {Gstr1Section(sorted_uploads, GSTR1_KEYS[i])}})])

\* the number of sections whose sheet was created and not completed
RaisedInSheet(sec) ==
    Cardinality({i \in DOMAIN sec : sec[i].raised = "sheet"})

\* _process_gstr1_data: the sheets it adds to the workbook, its summary, and
\* (sections) the combined_data of each section, which the code keeps in a local
ProcessGstr1Data(gstr1_files, fault) ==
    IF gstr1_files = <<>>
    THEN [sheets |-> <<>>,
          sections |-> [k \in {} |-> <<>>],
          summary |-> [files_processed |-> 0, worksheets_created |-> 0,
                       analysis_details |-> [k \in {} |-> 0]]]
    ELSE The({The({[sheets |-> sheets,
                    sections |-> [k \in Range(GSTR1_KEYS) |->
                                    IF sec[KeyIndex(GSTR1_KEYS, k)].raised = "concat"
                                    THEN <<>>
                                    ELSE sec[KeyIndex(GSTR1_KEYS, k)].data],
                    summary |-> [files_processed |-> Len(gstr1_files),
                                 worksheets_created |->
                                     Len(sheets) - RaisedInSheet(sec),
                                 analysis_details |->
                                     [k \in Range(GSTR1_KEYS) |->
                                         Gstr1Details(sec[KeyIndex(GSTR1_KEYS, k)])]]] :
                   sheets \in {Gstr1OwnSheets(sec, 1) \o Gstr1CombinedSheets(sec)}}) :
              sec \in {Gstr1Sections(SortedUploads(gstr1_files), fault)}})

\* lines 689-692: monthly_data['Month'] = month_name
SetMonth(data, month_name) ==
    Tuple(Len(data), [i \in DOMAIN data |->
        [path |-> data[i].path, entry |-> data[i].entry, sheet |-> data[i].sheet,
         n |-> data[i].n, cells |-> data[i].cells, Month |-> month_name,
         validation |-> data[i].validation]])

\* lines 682-697: the loop over the sorted files for one family B section
Gstr2aSection(sorted_uploads, worksheet_name) ==
    Concat(Tuple(Len(sorted_uploads), [i \in DOMAIN sorted_uploads |->
        The({IF monthly_data = <<>> THEN <<>>
             ELSE SetMonth(monthly_data,
                           GetMonthName(sorted_uploads[i].month,
                                        sorted_uploads[i].year)) :
             monthly_data \in {ReadWorksheetData(sorted_uploads[i].file,
                                                 worksheet_name)}})]))

RECURSIVE Gstr2aSheets(_, _)
\* line 700: one sheet per family B section with data, named by the section key
Gstr2aSheets(sec, i) ==
    IF i > Len(GSTR2A_KEYS) THEN <<>>
    ELSE LET k == GSTR2A_KEYS[i]
         IN  (IF sec[i].data # <<>> /\ sec[i].raised # "concat"
              THEN <<Sheet(k,
                           IF sec[i].raised = "sheet"
                           THEN PartialRows(sec[i].data) ELSE sec[i].data,
                           <<"GSTR2A", k>>)>>
              ELSE <<>>)
             \o Gstr2aSheets(sec, i + 1)

\* lines 666-706: the loop over the sections; element i is the section
\* GSTR2A_KEYS[i], with (raised) where its try block raised
Gstr2aSections(sorted_uploads, fault) ==
    Tuple(Len(GSTR2A_KEYS), [i \in DOMAIN GSTR2A_KEYS |->
        The({[data |-> data,
              raised |-> RaisedAt(fault, "GSTR2A", GSTR2A_KEYS[i], data)] :
             data \in {Gstr2aSection(sorted_uploads, GSTR2A_KEYS[i])}})])

\* _process_gstr2a_data
ProcessGstr2aData(gstr2a_files, fault) ==
    IF gstr2a_files = <<>>
    THEN [sheets |-> <<>>, sections |-> [k \in {} |-> <<>>],
          summary |-> [files_processed |-> 0, worksheets_created |-> 0]]
    ELSE The({The({[sheets |-> sheets,
                    sections |-> [k \in Range(GSTR2A_KEYS) |->
                                    IF sec[KeyIndex(GSTR2A_KEYS, k)].raised = "concat"
                                    THEN <<>>
                                    ELSE sec[KeyIndex(GSTR2A_KEYS, k)].data],
                    summary |-> [files_processed |-> Len(gstr2a_files),
                                 worksheets_created |->
                                     Len(sheets) - RaisedInSheet(sec)]] :
                   sheets \in {Gstr2aSheets(sec, 1)}}) :
              sec \in {Gstr2aSections(SortedUploads(gstr2a_files), fault)}})

\* _create_index_sheet_data: the outcome and the remarks computed for every
\* section of both families, in taxonomy order
CreateIndexSheetData(created_worksheets, analysis_details) ==
    [gstr1 |->
        [i \in DOMAIN GSTR1_KEYS |->
            LET worksheet_name == GSTR1_KEYS[i]
                output_name == GSTR1_WORKSHEETS(worksheet_name).output_name
                created == worksheet_name \in Range(created_worksheets)
                           \/ output_name \in Range(created_worksheets)
                wrong_count == IF worksheet_name \in DOMAIN analysis_details
                               THEN analysis_details[worksheet_name].wrong_month_records
                               ELSE 0
            IN  [sno |-> i, name |-> worksheet_name, output_name |-> output_name,
                 analysis_output |-> IF created THEN ANALYSED ELSE NO_RECORDS,
                 remarks |-> IF created /\ wrong_count > 0 THEN wrong_count ELSE 0]],
     gstr2a |->
        [i \in DOMAIN GSTR2A_KEYS |->
            [sno |-> i, name |-> GSTR2A_KEYS[i],
             analysis_output |-> IF GSTR2A_KEYS[i] \in Range(created_worksheets)
                                 THEN ANALYSED ELSE NO_RECORDS]]]

\* _add_index_sheet: the rows written to the sheet "Index" (columns S. No,
\* Worksheet Name, Analysis Output of either family)
AddIndexSheet(index_data) ==
    [title |-> "Index",
     gstr1 |-> [i \in DOMAIN GSTR1_KEYS |->
                   [sno |-> i, name |-> GSTR1_KEYS[i], analysis_output |-> ANALYSED]],
     gstr2a |-> [i \in DOMAIN GSTR2A_KEYS |->
                   [sno |-> i, name |-> GSTR2A_KEYS[i], analysis_output |-> ANALYSED]]]

RECURSIVE FilterType(_, _)
\* [u for u in uploads if u.file_type == file_type]
FilterType(ups, file_type) ==
    IF ups = <<>> THEN <<>>
    ELSE (IF Head(ups).file_type = file_type THEN <<Head(ups)>> ELSE <<>>)
         \o FilterType(Tail(ups), file_type)

\* str(analysis.id)[:8]: an id is <<first 8 characters, the rest>>
Prefix8(analysis_id) == analysis_id[1]

\* line 319: f"GST_Analysis_{gstin}_{financial_year}_{analysis_id[:8]}.xlsx"
OutputFilename(project, analysis_id) ==
    <<project.gstin, project.financial_year, Prefix8(analysis_id)>>

\* What can go wrong in _process_gst_data outside the try blocks of the sections:
\* an exception in either merge, in the index construction, or in wb.save,
\* the last one before or after the output file was created.
PipelineFaults == {"none", "gstr1", "gstr2a", "index", "save", "save_partial"}

\* the content of an output file that wb.save began and did not finish
PARTIAL == [index |-> "partial", sheets |-> <<>>]

\* lines 333-341: [ws.title for ws in wb.worksheets if ws.title != 'Index']
WorksheetTitles(sheets) ==
    Tuple(Len(sheets), [i \in DOMAIN sheets |-> sheets[i].title])

\* _process_gst_data: the dict it returns (a missing key is <<>>, a present
\* one <<value>>) and (written) what it leaves at output_path: <<workbook>>,
\* <<PARTIAL>>, or <<>> when no file was created
ProcessGstData(ups, project, analysis_id, fault) ==
    IF fault = "none" \/ fault \in SectionFaults
    THEN The({The({[success |-> TRUE,
                    output_filename |-> <<OutputFilename(project, analysis_id)>>,
                    output_path |-> <<OutputFilename(project, analysis_id)>>,
                    summary |-> <<[gstr1_summary |-> g1.summary,
                                   gstr2a_summary |-> g2.summary,
                                   total_worksheets |-> Len(created_worksheets) + 1,
                                   created_data_worksheets |-> created_worksheets]>>,
                    error |-> <<>>,
                    index_data |-> <<index_data>>,
                    sections |-> <<[gstr1 |-> g1.sections, gstr2a |-> g2.sections]>>,
                    written |-> <<[index |-> AddIndexSheet(index_data),
                                   sheets |-> g1.sheets \o g2.sheets]>>] :
                   created_worksheets \in {WorksheetTitles(g1.sheets \o g2.sheets)},
                   index_data \in {CreateIndexSheetData(
                                      WorksheetTitles(g1.sheets \o g2.sheets),
                                      g1.summary.analysis_details)}}) :
              g1 \in {ProcessGstr1Data(FilterType(ups, "GSTR1"), fault)},
              g2 \in {ProcessGstr2aData(FilterType(ups, "GSTR2A"), fault)}})
    ELSE [success |-> FALSE,
          output_filename |-> <<>>,
          output_path |-> <<>>,
          summary |-> <<>>,
          error |-> <<"Data processing failed", fault>>,
          index_data |-> <<>>,
          sections |-> <<>>,
          written |-> IF fault = "save_partial" THEN <<PARTIAL>> ELSE <<>>]

(***************************************************************************)
(* Inputs of the bounded check                                             *)
(***************************************************************************)
\* a row with data, and a row whose cells are all empty
DataRow == [c \in {"Invoice Number"} |-> Str("INV")]
BlankRow == [c \in {"Invoice Number"} |-> NaN]

\* the workbooks the uploads hold: a sheet no section names, a sheet named in
\* lower case, a sheet of blank rows only, a blank row between data rows
WorkbookA ==
    <<[name |-> "Help", rows |-> <<DataRow>>],
      [name |-> "b2b", rows |-> <<DataRow, DataRow>>],
      [name |-> "SEZ", rows |-> <<BlankRow>>]>>

WorkbookB ==
    <<[name |-> "SEZ", rows |-> <<DataRow>>],
      [name |-> "DE", rows |-> <<DataRow, BlankRow, DataRow>>]>>

Workbooks == {WorkbookA, WorkbookB}

\* (month, year) of the uploads: April, November, February of one fiscal year
Periods == {<<4, 2021>>, <<11, 2021>>, <<2, 2022>>}

FileTypes == {"GSTR1", "GSTR2A"}

\* the number of files handed to one run of the pipeline
MaxFiles == 3

\* the stored file of upload number id
StoredFile(id, period, sheets) ==
    [path |-> id, zip |-> FALSE, readable |-> TRUE,
     fname |-> [mmyyyy |-> period, dashed |-> <<>>, stem |-> "file"],
     sheets |-> sheets]

Upload(id, project_id, file_type, period, sheets) ==
    [id |-> id, project_id |-> project_id, file_type |-> file_type,
     month |-> period[1], year |-> period[2], upload_status |-> "uploaded",
     file |-> StoredFile(id, period, sheets)]

UploadChoices ==
    ({"GSTR1"} \X Periods \X Workbooks) \cup ({"GSTR2A"} \X Periods \X {WorkbookA})

\* every sequence of at most MaxFiles uploads of one project, ids in upload order
InputFiles ==
    UNION {{[i \in 1..n |-> Upload(i, "p1", c[i][1], c[i][2], c[i][3])] :
               c \in [1..n -> UploadChoices]} : n \in 0..MaxFiles}

Project1 == [id |-> "p1", gstin |-> "GSTIN1", financial_year |-> "2021-22"]

(***************************************************************************)
(* MergeSpec: the pipeline applied to drawn inputs                         *)
(***************************************************************************)
MergeInit ==
    /\ m_files \in InputFiles
    /\ m_out = <<>>
    /\ uploads = <<>>
    /\ analyses = <<>>
    /\ disk = [f \in {} |-> PARTIAL]
    /\ calls = <<>>
    /\ v_call = <<>>
    /\ zip_call = <<>>
    /\ tmp_dir = {}
    /\ x_call = <<>>
    /\ s_call = <<>>
    /\ l_call = <<>>
    /\ st_call = <<>>

\* one run of _process_gst_data over m_files
MergeRun ==
    /\ m_out = <<>>
    /\ \E fault \in PipelineFaults :
          m_out' = <<ProcessGstData(m_files, Project1, <<1, 1>>, fault)>>
    /\ UNCHANGED <<m_files, uploads, analyses, disk, calls, unit_vars, fn_vars>>

MergeNext == MergeRun

MergeSpec == MergeInit /\ [][MergeNext]_vars

(***************************************************************************)
(* FaultSpec: the pipeline with an exception in one section                *)
(***************************************************************************)
\* one run of _process_gst_data over m_files in which the try block of one
\* section raises; the fault is kept next to the result
SectionFaultRun ==
    /\ m_out = <<>>
    /\ \E fault \in SectionFaults :
          m_out' = <<ProcessGstData(m_files, Project1, <<1, 1>>, fault), fault>>
    /\ UNCHANGED <<m_files, uploads, analyses, disk, calls, unit_vars, fn_vars>>

FaultNext == SectionFaultRun

FaultSpec == MergeInit /\ [][FaultNext]_vars

(***************************************************************************)
(* ResolveSpec: the pipeline applied to stored files of every kind         *)
(*                                                                         *)
(* The upload handlers store a file as uploads/<uuid4><ext>, so the name   *)
(* _read_worksheet_data sees is the uuid, not the name the user gave.  A   *)
(* section sheet of a return has the invoice number in its third column    *)
(* (letter C) and the transaction date in its fourth (letter D); the       *)
(* header of the date column is "Invoice date", or, in a sheet made for    *)
(* the purpose, the letter "D" itself.                                     *)
(***************************************************************************)
\* header of the fourth column in the two layouts
DATE_HEADERS == {"Invoice date", "D"}

\* transaction dates as text: in April 2021 (two shapes), in May 2021 (as
\* str() of a Timestamp begins), the 31st of February, and a text no pattern
\* matches
InApril == Cell("date", "dd/mm/yyyy", 15, 4, 2021)
InAprilShort == Cell("date", "d/m/yyyy", 5, 4, 2021)
InMay == Cell("date", "yyyy-mm-dd", 2021, 5, 15)
BadDay == Cell("date", "dd/mm/yyyy", 31, 2, 2021)
TextDate == Str("15-Apr-2021")

\* a row of a sheet whose date column has that header
DateRow(header, cell) ==
    [c \in {"Invoice Number", header} |->
        IF c = header THEN cell ELSE Str("INV")]

\* a workbook with a b2b sheet: two rows dated in April, two in May, one
\* without a date, one blank row, one dated the 31st of February; and a SEZ
\* sheet of two rows
DatedWorkbook(header) ==
    <<[name |-> "b2b",
       rows |-> <<DateRow(header, InApril), DateRow(header, InMay),
                  [c \in {"Invoice Number", header} |-> NaN],
                  DateRow(header, InMay), DateRow(header, NaN),
                  DateRow(header, InAprilShort), DateRow(header, BadDay)>>],
      [name |-> "SEZ",
       rows |-> <<DateRow(header, InMay), DateRow(header, InApril)>>]>>

\* what the regular expressions of _extract_period_from_filename find in a
\* uuid4 name without a run of six digits, and in a name that has MMYYYY
UuidName == [mmyyyy |-> <<>>, dashed |-> <<>>, stem |-> "uuid"]
PeriodName(period) == [mmyyyy |-> <<period>>[1], dashed |-> <<>>, stem |-> "file"]

\* an entry of a bundle
ZipEntry(ename, spreadsheet, readable, sheets) ==
    [ename |-> ename, spreadsheet |-> spreadsheet, readable |-> readable,
     sheets |-> sheets]

\* what is stored at a file_path: a workbook or a bundle, readable or not
FileAt(path, zip, readable, fname, sheets, entries) ==
    [path |-> path, zip |-> zip, readable |-> readable, fname |-> fname,
     sheets |-> sheets, entries |-> entries]

\* the stored files of the check, for an upload declared for that period:
\* workbooks under a uuid name in either layout, a workbook whose stored name
\* has the period, a workbook that cannot be opened, a bundle whose first
\* entry cannot be read, whose second is a workbook named for another month
\* and whose third is no spreadsheet, a bundle with an unreadable last entry,
\* and a bundle that cannot be opened
StoredShapes(path, period) ==
    {FileAt(path, FALSE, TRUE, UuidName, DatedWorkbook("Invoice date"), <<>>),
     FileAt(path, FALSE, TRUE, UuidName, DatedWorkbook("D"), <<>>),
     FileAt(path, FALSE, TRUE, PeriodName(period), DatedWorkbook("D"), <<>>),
     FileAt(path, FALSE, FALSE, UuidName, DatedWorkbook("D"), <<>>),
     FileAt(path, TRUE, TRUE, UuidName, <<>>,
            <<ZipEntry(PeriodName(period), TRUE, FALSE, DatedWorkbook("D")),
              ZipEntry(PeriodName(<<5, 2021>>), TRUE, TRUE, DatedWorkbook("D")),
              ZipEntry(UuidName, FALSE, TRUE, <<>>)>>),
     FileAt(path, TRUE, TRUE, UuidName, <<>>,
            <<ZipEntry(PeriodName(period), TRUE, TRUE, DatedWorkbook("Invoice date")),
              ZipEntry(PeriodName(period), TRUE, FALSE, WorkbookA)>>),
     FileAt(path, TRUE, FALSE, UuidName, <<>>, <<>>)}

\* declared period of the uploads of ResolveSpec
ResolvePeriods == {<<4, 2021>>}

\* the number of files handed to one run of ResolveSpec
MaxStored == 2

\* upload number id of family file_type declared for period, holding file
StoredUpload(id, file_type, period, file) ==
    [id |-> id, project_id |-> "p1", file_type |-> file_type,
     month |-> period[1], year |-> period[2], upload_status |-> "uploaded",
     file |-> file]

StoredChoices(id) ==
    UNION {{StoredUpload(id, file_type, period, file) :
               file_type \in FileTypes, file \in StoredShapes(id, period)} :
           period \in ResolvePeriods}

\* every sequence of 1 to MaxStored such uploads
StoredFiles ==
    UNION {{f \in [1..n -> UNION {StoredChoices(i) : i \in 1..n}] :
               \A i \in 1..n : f[i].id = i} : n \in 1..MaxStored}

ResolveInit ==
    /\ m_files \in StoredFiles
    /\ m_out = <<>>
    /\ uploads = <<>>
    /\ analyses = <<>>
    /\ disk = [f \in {} |-> PARTIAL]
    /\ calls = <<>>
    /\ v_call = <<>>
    /\ zip_call = <<>>
    /\ tmp_dir = {}
    /\ x_call = <<>>
    /\ s_call = <<>>
    /\ l_call = <<>>
    /\ st_call = <<>>

ResolveSpec == ResolveInit /\ [][MergeNext]_vars

(***************************************************************************)
(* ValidateSpec: _add_month_validation applied to resolved frames          *)
(***************************************************************************)
\* the contents of a date cell
DateCells == {NaN, Str(""), InApril, InAprilShort, InMay, BadDay, TextDate}

\* the column headers of a sheet: the two layouts, and the second with a
\* column that has the name of the label column
Layouts ==
    {{"Invoice Number", "Invoice date"},
     {"Invoice Number", "D"},
     {"Invoice Number", "D", "Month Validation"}}

\* the most rows a validated sheet has
MaxRows == 3

\* the rows of a sheet with those headers, one per date cell of the sequence
LayoutRows(layout, cells) ==
    [i \in DOMAIN cells |->
        [c \in layout |-> IF c \in DATE_HEADERS THEN cells[i] ELSE Str("INV")]]

\* the b2b sheets of 1 to MaxRows rows
DatedSheets ==
    UNION {{<<[name |-> "b2b", rows |-> LayoutRows(layout, cells)]>> :
               layout \in Layouts, cells \in [1..n -> DateCells]} :
           n \in 1..MaxRows}

\* the frames _read_worksheet_data returns for section B2B of such sheets,
\* stored under a uuid name or under a name that has the period 04/2021
WorkbookFrames ==
    {ReadWorksheetData(FileAt(1, FALSE, TRUE, fname, sheets, <<>>), "B2B") :
        fname \in {UuidName, PeriodName(<<4, 2021>>)}, sheets \in DatedSheets}

\* a b2b sheet of one row with the date column headed 'D'
OneRowSheet(cell) ==
    <<[name |-> "b2b",
       rows |-> LayoutRows({"Invoice Number", "D"}, <<cell>>)]>>

\* the frames _read_worksheet_data returns for a bundle of two workbooks
\* named for 04/2021 and 05/2021, each with one row: the rows of the first
\* entry are tagged Apr-21, those of the second May-21
BundleFrames ==
    {ReadWorksheetData(
         FileAt(1, TRUE, TRUE, UuidName, <<>>,
                <<ZipEntry(PeriodName(<<4, 2021>>), TRUE, TRUE, OneRowSheet(c1)),
                  ZipEntry(PeriodName(<<5, 2021>>), TRUE, TRUE, OneRowSheet(c2))>>),
         "B2B") : c1 \in DateCells, c2 \in DateCells}

ResolvedFrames == WorkbookFrames \cup BundleFrames

ValidateInit ==
    /\ v_call \in {[data |-> data,
                    month_column |-> GSTR1_WORKSHEETS("B2B").month_column,
                    date_column |-> GSTR1_WORKSHEETS("B2B").date_column,
                    ret |-> <<>>] : data \in ResolvedFrames}
    /\ m_files = <<>>
    /\ m_out = <<>>
    /\ uploads = <<>>
    /\ analyses = <<>>
    /\ disk = [f \in {} |-> PARTIAL]
    /\ calls = <<>>
    /\ zip_call = <<>>
    /\ tmp_dir = {}
    /\ x_call = <<>>
    /\ s_call = <<>>
    /\ l_call = <<>>
    /\ st_call = <<>>

\* the call of line 591
Validate ==
    /\ v_call.ret = <<>>
    /\ v_call' = [v_call EXCEPT !.ret =
                     <<AddMonthValidation(v_call.data, v_call.month_column,
                                          v_call.date_column)>>]
    /\ UNCHANGED <<uploads, analyses, disk, calls, m_files, m_out, zip_call, tmp_dir, fn_vars>>

ValidateNext == Validate

ValidateSpec == ValidateInit /\ [][ValidateNext]_vars

(***************************************************************************)
(* ZipSpec: _read_worksheet_data on a bundle, statement by statement       *)
(*                                                                         *)
(* zip_call is [file, worksheet_name, pc, j, temp_file_path, raised,       *)
(* all_data, no_temp, ret]: j the entry the loop is at, temp_file_path     *)
(* <<>> for None, raised whether the try block of the entry raised,        *)
(* no_temp whether mkstemp failed for some entry, ret <<>> until the call  *)
(* returns and then <<value>> (the value <<>> for None).                   *)
(***************************************************************************)
\* the entries a bundle can have: a workbook with a b2b sheet, a workbook
\* with other sheets, a workbook that cannot be read, a file that is no
\* spreadsheet
EntryKinds ==
    {ZipEntry(PeriodName(<<4, 2021>>), TRUE, TRUE, DatedWorkbook("D")),
     ZipEntry(PeriodName(<<5, 2021>>), TRUE, TRUE, WorkbookB),
     ZipEntry(PeriodName(<<4, 2021>>), TRUE, FALSE, WorkbookA),
     ZipEntry(UuidName, FALSE, TRUE, <<>>)}

\* the most entries a bundle has
MaxEntries == 2

\* the bundles: every sequence of at most MaxEntries entries, and a bundle
\* that cannot be opened
Bundles ==
    {FileAt(1, TRUE, TRUE, UuidName, <<>>, entries) :
        entries \in UNION {[1..n -> EntryKinds] : n \in 0..MaxEntries}}
    \cup {FileAt(1, TRUE, FALSE, UuidName, <<>>, <<>>)}

RECURSIVE NextExcelFile(_, _)
\* lines 726-727: the next entry at or after j that is a spreadsheet
NextExcelFile(entries, j) ==
    IF j > Len(entries) \/ entries[j].spreadsheet THEN j
    ELSE NextExcelFile(entries, j + 1)

\* the finally block left out when the try block raised
Cleanup_NotAfterRaise(dir, temp_file_path, raised) ==
    IF temp_file_path # <<>> /\ ~raised THEN dir \ {temp_file_path[1]} ELSE dir

\* lines 754-759: the finally block of an entry, which runs whether or not
\* the try block raised
Cleanup(dir, temp_file_path, raised) ==
    IF temp_file_path # <<>> THEN dir \ {temp_file_path[1]} ELSE dir

ZipInit ==
    /\ zip_call \in {[file |-> file, worksheet_name |-> k, pc |-> "open", j |-> 0,
                      temp_file_path |-> <<>>, raised |-> FALSE,
                      all_data |-> <<>>, no_temp |-> FALSE, ret |-> <<>>] :
                        file \in Bundles, k \in {"B2B", "SEZ"}}
    /\ tmp_dir = {}
    /\ x_call = <<>>
    /\ s_call = <<>>
    /\ l_call = <<>>
    /\ st_call = <<>>
    /\ v_call = <<>>
    /\ m_files = <<>>
    /\ m_out = <<>>
    /\ uploads = <<>>
    /\ analyses = <<>>
    /\ disk = [f \in {} |-> PARTIAL]
    /\ calls = <<>>

\* lines 724-727: the bundle is opened and its spreadsheet entries listed;
\* a bundle that cannot be opened makes the call return None (line 779)
ZipOpen ==
    /\ zip_call.pc = "open"
    /\ zip_call' =
          IF zip_call.file.readable
          THEN [zip_call EXCEPT !.pc = "loop",
                                !.j = NextExcelFile(zip_call.file.entries, 1)]
          ELSE [zip_call EXCEPT !.pc = "returned", !.ret = <<<<>>>>]
    /\ UNCHANGED <<tmp_dir, v_call, m_files, m_out, uploads, analyses, disk, calls, fn_vars>>

\* lines 729-730 and 761-765: the head of the loop, and the return after it
ZipLoop ==
    /\ zip_call.pc = "loop"
    /\ zip_call' =
          IF zip_call.j > Len(zip_call.file.entries)
          THEN [zip_call EXCEPT !.pc = "returned",
                                !.ret = <<Concat(zip_call.all_data)>>]
          ELSE [zip_call EXCEPT !.pc = "mkstemp", !.temp_file_path = <<>>,
                                !.raised = FALSE]
    /\ UNCHANGED <<tmp_dir, v_call, m_files, m_out, uploads, analyses, disk, calls, fn_vars>>

\* line 733: mkstemp creates a file of a new name, or raises
ZipMkstemp ==
    /\ zip_call.pc = "mkstemp"
    /\ \E created \in BOOLEAN :
          IF created
          THEN /\ tmp_dir' = tmp_dir \cup {zip_call.j}
               /\ zip_call' = [zip_call EXCEPT !.pc = "write",
                                               !.temp_file_path = <<zip_call.j>>]
          ELSE /\ tmp_dir' = tmp_dir
               /\ zip_call' = [zip_call EXCEPT !.pc = "finally", !.raised = TRUE,
                                               !.no_temp = TRUE]
    /\ UNCHANGED <<v_call, m_files, m_out, uploads, analyses, disk, calls, fn_vars>>

\* lines 736-737: the entry is written to the file; for an entry that cannot
\* be read this may raise
ZipWrite ==
    /\ zip_call.pc = "write"
    /\ \E raises \in IF zip_call.file.entries[zip_call.j].readable
                     THEN {FALSE} ELSE BOOLEAN :
          zip_call' = IF raises
                      THEN [zip_call EXCEPT !.pc = "finally", !.raised = TRUE]
                      ELSE [zip_call EXCEPT !.pc = "read"]
    /\ UNCHANGED <<tmp_dir, v_call, m_files, m_out, uploads, analyses, disk, calls, fn_vars>>

\* lines 740-748: the sheet is read from the file, tagged and kept; no sheet
\* matched, or the file could not be read: nothing is kept
ZipRead ==
    /\ zip_call.pc = "read"
    /\ \E e \in {zip_call.file.entries[zip_call.j]} :
       \E data \in {IF e.readable
                    THEN ReadExcelWorksheet(e.sheets, zip_call.worksheet_name,
                                            <<zip_call.file.path, zip_call.j>>)
                    ELSE <<>>} :
          zip_call' =
              [zip_call EXCEPT
                  !.pc = "finally",
                  !.all_data =
                      IF data # <<>>
                      THEN Append(@, TagMonth(data, ExtractPeriodFromFilename(e.ename)))
                      ELSE @]
    /\ UNCHANGED <<tmp_dir, v_call, m_files, m_out, uploads, analyses, disk, calls, fn_vars>>

\* lines 752-759: the finally block, then the next entry
ZipFinally ==
    /\ zip_call.pc = "finally"
    /\ tmp_dir' = Cleanup(tmp_dir, zip_call.temp_file_path, zip_call.raised)
    /\ zip_call' = [zip_call EXCEPT
                       !.pc = "loop",
                       !.j = NextExcelFile(zip_call.file.entries, zip_call.j + 1)]
    /\ UNCHANGED <<v_call, m_files, m_out, uploads, analyses, disk, calls, fn_vars>>

ZipNext ==
    \/ ZipOpen
    \/ ZipLoop
    \/ ZipMkstemp
    \/ ZipWrite
    \/ ZipRead
    \/ ZipFinally

ZipSpec == ZipInit /\ [][ZipNext]_vars

(***************************************************************************)
(* SheetSpec: _read_excel_worksheet applied to workbooks                   *)
(*                                                                         *)
(* x_call is [readable, sheets, worksheet_name, ret]: whether pd.ExcelFile *)
(* opens the file, its sheets, the section key, and ret, <<>> until the    *)
(* call returns and then <<[sheet_name, df]>>: the local sheet_name (None  *)
(* when the loop found no sheet) and the value returned (<<>> for None).   *)
(***************************************************************************)
\* names of sheets in the workbooks of the check
SHEET_NAMES == {"b2b", "B2B", "B2B (4A)", "Table B2B", "B2C", "B2BA", "Help"}

\* the section keys the calls ask for
SheetKeys == {"B2B", "B2BA", "B2CL"}

\* the most sheets a workbook of the check has
MaxSheets == 2

\* workbooks of 1 to MaxSheets sheets whose names differ (a workbook has no
\* two sheets whose names differ by case only), each sheet with one data row
\* or with one blank row
SheetBooks ==
    UNION {{w \in [1..n -> [name : SHEET_NAMES,
                            rows : {<<DataRow>>, <<BlankRow>>}]] :
               \A i, j \in 1..n :
                   i # j => Upper(Chars(w[i].name)) # Upper(Chars(w[j].name))} :
           n \in 1..MaxSheets}

SheetInit ==
    /\ x_call \in [readable : BOOLEAN, sheets : SheetBooks,
                   worksheet_name : SheetKeys, ret : {<<>>}]
    /\ s_call = <<>>
    /\ l_call = <<>>
    /\ st_call = <<>>
    /\ v_call = <<>>
    /\ zip_call = <<>>
    /\ tmp_dir = {}
    /\ m_files = <<>>
    /\ m_out = <<>>
    /\ uploads = <<>>
    /\ analyses = <<>>
    /\ disk = [f \in {} |-> PARTIAL]
    /\ calls = <<>>

\* the call of lines 740 and 769; a file that cannot be opened raises in
\* line 788 and the handler of line 829 returns None
SheetRead ==
    /\ x_call.ret = <<>>
    /\ x_call' = [x_call EXCEPT !.ret =
          IF ~x_call.readable THEN <<[sheet_name |-> None, df |-> <<>>]>>
          ELSE The({<<[sheet_name |-> IF i = 0 THEN None
                                      ELSE x_call.sheets[i].name,
                       df |-> ReadExcelWorksheet(x_call.sheets,
                                                 x_call.worksheet_name, <<1, 0>>)]>> :
                    i \in {FirstMatch(x_call.sheets, 1, x_call.worksheet_name)}})]
    /\ UNCHANGED <<uploads, analyses, disk, calls, m_files, m_out, unit_vars,
                   s_call, l_call, st_call>>

SheetNext == SheetRead

SheetSpec == SheetInit /\ [][SheetNext]_vars

(***************************************************************************)
(* SortSpec: the sort of the section loops applied to uploads              *)
(*                                                                         *)
(* s_call is [files, ret]: the uploads of one family in query order, and   *)
(* ret, <<>> until sorted() returns and then <<[keys, sorted_uploads]>>:   *)
(* the key the lambda gave for each file, and the sorted list.             *)
(***************************************************************************)
\* the years of the uploads: the months of two calendar years span three
\* fiscal years
SortYears == {2021, 2022}

\* the most files one sort gets
MaxSorted == 2

\* every sequence of 1 to MaxSorted uploads with a month of 1..12
SortFiles ==
    UNION {{[i \in 1..n |-> Upload(i, "p1", "GSTR1", c[i], WorkbookA)] :
               c \in [1..n -> (1..12) \X SortYears]} : n \in 1..MaxSorted}

SortInit ==
    /\ s_call \in [files : SortFiles, ret : {<<>>}]
    /\ x_call = <<>>
    /\ l_call = <<>>
    /\ st_call = <<>>
    /\ v_call = <<>>
    /\ zip_call = <<>>
    /\ tmp_dir = {}
    /\ m_files = <<>>
    /\ m_out = <<>>
    /\ uploads = <<>>
    /\ analyses = <<>>
    /\ disk = [f \in {} |-> PARTIAL]
    /\ calls = <<>>

\* lines 565 and 680: sorted(files, key=lambda x: (...))
SortRun ==
    /\ s_call.ret = <<>>
    /\ s_call' = [s_call EXCEPT !.ret =
          <<[keys |-> [i \in DOMAIN s_call.files |-> SortKey(s_call.files[i])],
             sorted_uploads |-> SortedUploads(s_call.files)]>>]
    /\ UNCHANGED <<uploads, analyses, disk, calls, m_files, m_out, unit_vars,
                   x_call, l_call, st_call>>

SortNext == SortRun

SortSpec == SortInit /\ [][SortNext]_vars

(***************************************************************************)
(* LabelSpec: _get_month_name applied to (month, year)                     *)
(*                                                                         *)
(* l_call is [month, year, ret], ret <<>> until the call returns and then  *)
(* <<label>>.                                                              *)
(***************************************************************************)
\* the months of the calls: 1..12 and values on either side
LabelMonths == -1 .. 14

\* the years of the calls
LabelYears == {905, 1999, 2000, 2021, 2024, 2105}

LabelInit ==
    /\ l_call \in [month : LabelMonths, year : LabelYears, ret : {<<>>}]
    /\ x_call = <<>>
    /\ s_call = <<>>
    /\ st_call = <<>>
    /\ v_call = <<>>
    /\ zip_call = <<>>
    /\ tmp_dir = {}
    /\ m_files = <<>>
    /\ m_out = <<>>
    /\ uploads = <<>>
    /\ analyses = <<>>
    /\ disk = [f \in {} |-> PARTIAL]
    /\ calls = <<>>

\* the calls of lines 690, 960, 969 and 1030
LabelCall ==
    /\ l_call.ret = <<>>
    /\ l_call' = [l_call EXCEPT !.ret = <<GetMonthName(l_call.month, l_call.year)>>]
    /\ UNCHANGED <<uploads, analyses, disk, calls, m_files, m_out, unit_vars,
                   x_call, s_call, st_call>>

LabelNext == LabelCall

LabelSpec == LabelInit /\ [][LabelNext]_vars

(***************************************************************************)
(* Upload handler: validate_and_store_file (file_validation_service.py)    *)
(*                                                                         *)
(* A file name is [family, shaped, month, year, period]: family says which *)
(* marker text the name holds ("GSTR1", "GSTR2A" for R2A, "other" for      *)
(* neither), shaped whether the pattern of that family matches the name,   *)
(* period the six digits the pattern captures, which the user wrote for    *)
(* (month, year).                                                          *)
(***************************************************************************)
\* the six digits MMYYYY of a month of 0..99 and a year of four digits
PeriodText(month, year) == <<month \div 10, month % 10>> \o Digits(year)

FileName(family, shaped, month, year) ==
    [family |-> family, shaped |-> shaped, month |-> month, year |-> year,
     period |-> PeriodText(month, year)]

\* lines 288-292: the family is taken from the text of the name
DetectFileType(filename) ==
    IF filename.family = "GSTR1" THEN "GSTR1"
    ELSE IF filename.family = "GSTR2A" THEN "GSTR2A"
    ELSE "unknown"

\* int() of a string of digits
IntOf(digits) ==
    IF Len(digits) = 2 THEN 10 * digits[1] + digits[2]
    ELSE 1000 * digits[1] + 100 * digits[2] + 10 * digits[3] + digits[4]

\* validate_filename: is_valid, and in details the month and the year parsed
\* from the period (details <<>> when the name is not valid)
ValidateFilename(filename, file_type) ==
    IF file_type \notin {"GSTR1", "GSTR2A"} \/ ~filename.shaped
    THEN [is_valid |-> FALSE, details |-> <<>>]
    ELSE LET month == IntOf(SubSeq(filename.period, 1, 2))
             year == IntOf(SubSeq(filename.period, 3, 6))
         IN  IF month < 1 \/ month > 12 \/ year < 2017 \/ year > 2030
             THEN [is_valid |-> FALSE, details |-> <<>>]
             ELSE [is_valid |-> TRUE,
                   details |-> <<[month |-> month, year |-> year]>>]

\* validate_and_store_file: the FileUpload row it adds; the content is
\* stored as uploads/<uuid4><ext>
ValidateAndStoreFile(id, filename, sheets) ==
    LET file_type == DetectFileType(filename)
        validation_result == ValidateFilename(filename, file_type)
    IN  [id |-> id, project_id |-> "p1", file_type |-> file_type,
         month |-> IF validation_result.is_valid
                   THEN validation_result.details[1].month ELSE 1,
         year |-> 2024,
         upload_status |-> IF validation_result.is_valid
                           THEN "uploaded" ELSE "error",
         file |-> FileAt(id, FALSE, TRUE, UuidName, sheets, <<>>)]

(***************************************************************************)
(* StoreSpec: validate_and_store_file applied to file names                *)
(*                                                                         *)
(* st_call is [filename, ret], ret <<>> until the call returns and then    *)
(* <<[file_upload, validation_status]>>.                                   *)
(***************************************************************************)
\* months and years written in the names: valid ones, and values on either
\* side of the ranges validate_filename accepts
NameMonths == {0, 1, 4, 12, 13}
NameYears == {2016, 2017, 2021, 2024, 2030, 2031}

StoreNames ==
    {FileName(family, shaped, month, year) :
        family \in {"GSTR1", "GSTR2A", "other"}, shaped \in BOOLEAN,
        month \in NameMonths, year \in NameYears}

StoreInit ==
    /\ st_call \in [filename : StoreNames, ret : {<<>>}]
    /\ uploads = <<>>
    /\ x_call = <<>>
    /\ s_call = <<>>
    /\ l_call = <<>>
    /\ v_call = <<>>
    /\ zip_call = <<>>
    /\ tmp_dir = {}
    /\ m_files = <<>>
    /\ m_out = <<>>
    /\ analyses = <<>>
    /\ disk = [f \in {} |-> PARTIAL]
    /\ calls = <<>>

\* the call of the upload route: the row is added to file_uploads
StoreFile ==
    /\ st_call.ret = <<>>
    /\ \E row \in {ValidateAndStoreFile(Len(uploads) + 1, st_call.filename,
                                         WorkbookA)} :
          /\ uploads' = Append(uploads, row)
          /\ st_call' = [st_call EXCEPT !.ret =
                <<[file_upload |-> row,
                   validation_status |-> IF row.upload_status = "uploaded"
                                         THEN "valid" ELSE "failed"]>>]
    /\ UNCHANGED <<analyses, disk, calls, m_files, m_out, unit_vars,
                   x_call, s_call, l_call>>

StoreNext == StoreFile

StoreSpec == StoreInit /\ [][StoreNext]_vars

(***************************************************************************)
(* Run orchestrator: start_analysis and the run records                    *)
(***************************************************************************)
\* the gst_projects table
Projects == {Project1}

\* the project ids start_analysis is called with; "p0" names no project
ProjectIds == {"p1", "p0"}

\* what uuid4 can give the run record of the n-th call, as <<first 8
\* characters, the rest>>: a value no earlier record has, whose first 8
\* characters are new or those of the first record's id
Uuid4(n) == {<<1, n>>, <<n, n>>}

\* where the orchestrator's runs of _process_gst_data raise: nowhere, before
\* the workbook is saved, or in the save after the file was opened
SpecFaults == {"none", "index", "save_partial"}

\* what the uploads of the orchestrator's runs hold
SpecChoices ==
    {<<"GSTR1", <<4, 2021>>, WorkbookB>>, <<"GSTR2A", <<4, 2021>>, WorkbookA>>}

\* the number of rows of file_uploads, and of calls of start_analysis
MaxUploads == 1
MaxCalls == 2

\* lines 261-264: the rows of file_uploads of the project in status 'uploaded'
UploadedFiles(ups, project_id) ==
    IF ups = <<>> THEN <<>>
    ELSE LET n == Len(ups)
             keep == {i \in 1..n : ups[i].project_id = project_id
                                   /\ ups[i].upload_status = "uploaded"}
         IN  IF keep = {} THEN <<>>
             ELSE LET RECURSIVE Pick(_)
                      Pick(i) == IF i > n THEN <<>>
                                 ELSE (IF i \in keep THEN <<ups[i]>> ELSE <<>>)
                                      \o Pick(i + 1)
                  IN  Pick(1)

\* mutant: the check for uploaded files is missing
StartError_NoFileCheck(ups, project_id) ==
    IF \A p \in Projects : p.id # project_id THEN "Project not found" ELSE ""

\* lines 256-267: the error start_analysis returns before it creates a run
\* record, "" when it goes on
StartError(ups, project_id) ==
    IF \A p \in Projects : p.id # project_id THEN "Project not found"
    ELSE IF UploadedFiles(ups, project_id) = <<>> THEN "No uploaded files found"
    ELSE ""

\* mutant: the run record of the project is reused for a further run
CreateAnalysis_Reuse(rows, id, project_id) ==
    IF \E i \in DOMAIN rows : rows[i].project_id = project_id
    THEN [i \in DOMAIN rows |->
            IF rows[i].project_id = project_id
            THEN [rows[i] EXCEPT !.status = "processing"] ELSE rows[i]]
    ELSE Append(rows, [id |-> id, project_id |-> project_id,
                       analysis_type |-> "comparison", status |-> "processing",
                       output_filename |-> <<>>, output_file_path |-> <<>>,
                       analysis_summary |-> <<>>, error_message |-> <<>>])

\* lines 270-276: AnalysisResult(project_id, 'comparison', 'processing') added
\* to analysis_results (a column that is NULL is <<>>)
CreateAnalysis(rows, id, project_id) ==
    Append(rows, [id |-> id, project_id |-> project_id,
                  analysis_type |-> "comparison", status |-> "processing",
                  output_filename |-> <<>>, output_file_path |-> <<>>,
                  analysis_summary |-> <<>>, error_message |-> <<>>])

\* lines 282-291: the run record after the update start_analysis makes from the
\* result of _process_gst_data
UpdateAnalysis(row, result) ==
    IF result.success
    THEN [row EXCEPT !.status = "completed",
                     !.output_filename = result.output_filename,
                     !.output_file_path = result.output_path,
                     !.analysis_summary = result.summary]
    ELSE [row EXCEPT !.status = "failed", !.error_message = result.error]

\* the dict _process_gst_data returns, without the locals the model keeps with it
Returned(res) ==
    [success |-> res.success, output_filename |-> res.output_filename,
     output_path |-> res.output_path, summary |-> res.summary, error |-> res.error]

\* a call of start_analysis: pc is "pipeline" (run record committed, about to
\* call _process_gst_data), "commit" (about to update the record and commit)
\* or "returned"; aid is the id of the record it committed, ups the uploads it
\* loaded, result what _process_gst_data returned, ret what it returned
Call(project_id, pc, aid, ups, result, ret) ==
    [project_id |-> project_id, pc |-> pc, aid |-> aid, ups |-> ups,
     result |-> result, ret |-> ret]

Failure(error) ==
    <<[success |-> FALSE, analysis_id |-> <<>>, output_filename |-> <<>>,
       summary |-> <<>>, error |-> <<error>>]>>

ProjectOf(project_id) == CHOOSE p \in Projects : p.id = project_id

RowOf(rows, id) == CHOOSE i \in DOMAIN rows : rows[i].id = id

\* the handlers are coroutines of one event loop and the service is
\* synchronous: a request is served only when no call of start_analysis is
\* under way
Idle == \A i \in DOMAIN calls : calls[i].pc = "returned"

Init ==
    /\ uploads = <<>>
    /\ analyses = <<>>
    /\ disk = [f \in {} |-> PARTIAL]
    /\ calls = <<>>
    /\ v_call = <<>>
    /\ zip_call = <<>>
    /\ tmp_dir = {}
    /\ x_call = <<>>
    /\ s_call = <<>>
    /\ l_call = <<>>
    /\ st_call = <<>>
    /\ m_files = <<>>
    /\ m_out = <<>>

\* the storage collaborator adds a row to file_uploads: a file whose name
\* passed validation ('uploaded') or did not ('error')
UploadFile ==
    /\ Idle
    /\ Len(uploads) < MaxUploads
    /\ \E c \in SpecChoices, shaped \in BOOLEAN :
          uploads' = Append(uploads,
              ValidateAndStoreFile(Len(uploads) + 1,
                  FileName(c[1], shaped, c[2][1], c[2][2]), c[3]))
    /\ UNCHANGED <<analyses, disk, calls, m_files, m_out, unit_vars, fn_vars>>

\* start_analysis, lines 254-267: returns before a run record exists
StartRejected ==
    /\ Idle
    /\ Len(calls) < MaxCalls
    /\ \E project_id \in ProjectIds :
          /\ StartError(uploads, project_id) # ""
          /\ calls' = Append(calls,
                Call(project_id, "returned", <<>>, <<>>, <<>>,
                     Failure(StartError(uploads, project_id))))
    /\ UNCHANGED <<uploads, analyses, disk, m_files, m_out, unit_vars, fn_vars>>

\* start_analysis, lines 254-277: the run record is added and committed.  The
\* commit may raise (no record, line 303 returns the failure), and so may the
\* refresh after it (the record is there, line 303 returns the failure).
StartAnalysis ==
    /\ Idle
    /\ Len(calls) < MaxCalls
    /\ \E project_id \in ProjectIds,
          db \in {"ok", "commit raises", "refresh raises"},
          id \in Uuid4(Len(calls) + 1) :
          LET ups == UploadedFiles(uploads, project_id)
          IN  /\ StartError(uploads, project_id) = ""
              /\ analyses' = IF db = "commit raises" THEN analyses
                             ELSE CreateAnalysis(analyses, id, project_id)
              /\ calls' = Append(calls,
                    IF db = "ok"
                    THEN Call(project_id, "pipeline", <<id>>, ups, <<>>, <<>>)
                    ELSE Call(project_id, "returned",
                              IF db = "commit raises" THEN <<>> ELSE <<id>>,
                              ups, <<>>, Failure("Analysis failed")))
    /\ UNCHANGED <<uploads, disk, m_files, m_out, unit_vars, fn_vars>>

\* start_analysis, line 280: _process_gst_data runs and leaves its output file
RunPipeline ==
    \E c \in DOMAIN calls, fault \in SpecFaults :
        /\ calls[c].pc = "pipeline"
        /\ \E project \in {ProjectOf(calls[c].project_id)} :
           \E res \in {ProcessGstData(calls[c].ups, project, calls[c].aid[1], fault)},
              path \in {OutputFilename(project, calls[c].aid[1])} :
               /\ disk' = IF res.written = <<>> THEN disk
                          ELSE [f \in DOMAIN disk \cup {path} |->
                                   IF f = path THEN res.written[1] ELSE disk[f]]
               /\ calls' = [calls EXCEPT ![c].pc = "commit",
                                         ![c].result = <<Returned(res)>>]
        /\ UNCHANGED <<uploads, analyses, m_files, m_out, unit_vars, fn_vars>>

\* start_analysis, lines 282-304: the record is updated and committed, and the
\* result returned; if the commit raises, the update is lost and line 303
\* returns the failure
FinishAnalysis ==
    \E c \in DOMAIN calls, commit \in {"ok", "commit raises"} :
        /\ calls[c].pc = "commit"
        /\ LET res == calls[c].result[1]
               i == RowOf(analyses, calls[c].aid[1])
           IN  IF commit = "ok"
               THEN /\ analyses' = [analyses EXCEPT ![i] = UpdateAnalysis(@, res)]
                    /\ calls' = [calls EXCEPT
                          ![c].pc = "returned",
                          ![c].ret = <<[success |-> res.success,
                                        analysis_id |-> calls[c].aid,
                                        output_filename |-> res.output_filename,
                                        summary |-> res.summary,
                                        error |-> res.error]>>]
               ELSE /\ analyses' = analyses
                    /\ calls' = [calls EXCEPT ![c].pc = "returned",
                                              ![c].ret = Failure("Analysis failed")]
        /\ UNCHANGED <<uploads, disk, m_files, m_out, unit_vars, fn_vars>>

Next ==
    \/ UploadFile
    \/ StartRejected
    \/ StartAnalysis
    \/ RunPipeline
    \/ FinishAnalysis

Spec == Init /\ [][Next]_vars

(***************************************************************************)
(* Properties of the merge (MergeSpec)                                     *)
(***************************************************************************)
\* the pipeline has run and returned success
MergeDone == m_out # <<>> /\ m_out[1].success

\* the data sheets of the workbook the run saved
OutSheets == m_out[1].written[1].sheets

\* the files of one family among the inputs
FamilyFiles(file_type) == {i \in DOMAIN m_files : m_files[i].file_type = file_type}

\* the upload a row of a frame was read from
UploadOfRow(row) == m_files[CHOOSE i \in DOMAIN m_files : m_files[i].id = row.path]

\* April = 1, ..., December = 9, January = 10, ..., March = 12
FiscalRank(month) == ((month + 8) % 12) + 1

\* the fiscal year a (month, year) falls in, named by the year of its April
FiscalYear(month, year) == IF month >= 4 THEN year ELSE year - 1

\* two rows of one sheet keep the order they have in that sheet
SameSheetBefore(a, b) ==
    (a.path = b.path /\ a.entry = b.entry /\ a.sheet = b.sheet) => a.n < b.n

\* the rows of one file are listed entry by entry, each entry's rows in the
\* order of its sheet
InFileOrder(rows) ==
    \A i, j \in DOMAIN rows :
        (i < j /\ rows[i].path = rows[j].path) =>
            \/ rows[i].entry < rows[j].entry
            \/ rows[i].entry = rows[j].entry /\ rows[i].n < rows[j].n

\* rows are listed by the month of their file, April first, March last, the
\* rows of one month in their original order
InFiscalOrder(rows) ==
    \A i, j \in DOMAIN rows :
        i < j =>
            LET a == UploadOfRow(rows[i])
                b == UploadOfRow(rows[j])
            IN  \/ FiscalYear(a.month, a.year) < FiscalYear(b.month, b.year)
                \/ /\ FiscalYear(a.month, a.year) = FiscalYear(b.month, b.year)
                   /\ FiscalRank(a.month) < FiscalRank(b.month)
                \/ /\ a.month = b.month /\ a.year = b.year
                   /\ SameSheetBefore(rows[i], rows[j])

\* the months of the files of one family are pairwise distinct and lie in one
\* fiscal year
DistinctMonthsOneYear(file_type) ==
    \A i, j \in FamilyFiles(file_type) :
        /\ FiscalYear(m_files[i].month, m_files[i].year)
              = FiscalYear(m_files[j].month, m_files[j].year)
        /\ (i # j => m_files[i].month # m_files[j].month)

\* the merged data of every section of one family, as the run computed it
SectionsOf(file_type) ==
    IF file_type = "GSTR1" THEN m_out[1].sections[1].gstr1
    ELSE m_out[1].sections[1].gstr2a

\* what resolve yields for one input file and one section key
Fragment(i, k) == ReadWorksheetData(m_files[i].file, k)

\* every row of every fragment of the family's files is in the merged section
\* once, and nothing else is
HoldsTheFragments(file_type, k) ==
    LET rows == SectionsOf(file_type)[k]
    IN  /\ \A i \in FamilyFiles(file_type) :
              Cardinality({j \in DOMAIN rows : rows[j].path = m_files[i].id})
                  = Len(Fragment(i, k))
        /\ \A j \in DOMAIN rows :
              \E i \in FamilyFiles(file_type) : rows[j].path = m_files[i].id

\* C6: for files of one family with pairwise distinct months of one fiscal
\* year, passed in any order, every merged section lists the rows of all the
\* files' fragments April first, March last, each file's rows in file order:
\* the merged section is the same for every upload order.
C6_MergeOrderIndependent ==
    MergeDone =>
        \A file_type \in FileTypes :
            DistinctMonthsOneYear(file_type) =>
                \A k \in DOMAIN SectionsOf(file_type) :
                    /\ InFiscalOrder(SectionsOf(file_type)[k])
                    /\ InFileOrder(SectionsOf(file_type)[k])
                    /\ HoldsTheFragments(file_type, k)

\* three files of one family uploaded out of fiscal order, all three with rows
\* in one merged section
C6_Witness ==
    /\ MergeDone
    /\ \E file_type \in FileTypes :
          /\ DistinctMonthsOneYear(file_type)
          /\ \E i, j \in FamilyFiles(file_type) :
                i < j /\ FiscalRank(m_files[i].month) > FiscalRank(m_files[j].month)
          /\ \E k \in DOMAIN SectionsOf(file_type) :
                Cardinality({SectionsOf(file_type)[k][r].path :
                                r \in DOMAIN SectionsOf(file_type)[k]}) >= 3

\* C7: in every sheet of the output, the combined sheet of the group B2B, SEZ,
\* DE included, rows are in fiscal-year chronological order of the month of
\* the file they came from, rows of one month in their original order.
C7_SheetRowsInFiscalOrder ==
    MergeDone => \A s \in DOMAIN OutSheets : InFiscalOrder(OutSheets[s].rows)

\* what does hold: every sheet of a single section is in that order
SingleSectionSheetsInFiscalOrder ==
    MergeDone =>
        \A s \in DOMAIN OutSheets :
            OutSheets[s].title # COMBINED_OUTPUT => InFiscalOrder(OutSheets[s].rows)

\* the family A sections that share the combined output group
GroupKeys ==
    {k \in Range(GSTR1_KEYS) : GSTR1_WORKSHEETS(k).output_name = COMBINED_OUTPUT}

\* the merged rows of a family A section (none when the family has no files)
Gstr1Rows(k) ==
    IF k \in DOMAIN SectionsOf("GSTR1") THEN SectionsOf("GSTR1")[k] ELSE <<>>

RECURSIVE SumLen(_, _)
SumLen(keys, i) ==
    IF i > Len(keys) THEN 0
    ELSE (IF keys[i] \in GroupKeys THEN Len(Gstr1Rows(keys[i])) ELSE 0)
         + SumLen(keys, i + 1)

\* C8: the sections of the combined output group appear as exactly one sheet,
\* never as sheets of their own; the sheet holds exactly the rows of the
\* contributing sections, each once; it is absent exactly when all of them
\* are empty.
C8_CombinedSheet ==
    MergeDone =>
        LET group == {s \in DOMAIN OutSheets : OutSheets[s].title = COMBINED_OUTPUT}
            own == {s \in DOMAIN OutSheets :
                       /\ OutSheets[s].title # COMBINED_OUTPUT
                       /\ OutSheets[s].ref[1] = "GSTR1"
                       /\ OutSheets[s].ref[2] \in GroupKeys}
        IN  /\ Cardinality(group) <= 1
            /\ own = {}
            /\ (group = {}) <=> (\A k \in GroupKeys : Gstr1Rows(k) = <<>>)
            /\ \A s \in group :
                  /\ Range(OutSheets[s].rows)
                        = UNION {Range(Gstr1Rows(k)) : k \in GroupKeys}
                  /\ Len(OutSheets[s].rows) = SumLen(GSTR1_KEYS, 1)
                  /\ Cardinality(Range(OutSheets[s].rows)) = Len(OutSheets[s].rows)

\* a combined sheet to which at least two sections contribute
C8_Witness ==
    /\ MergeDone
    /\ \E s \in DOMAIN OutSheets : OutSheets[s].title = COMBINED_OUTPUT
    /\ Cardinality({k \in GroupKeys : Gstr1Rows(k) # <<>>}) >= 2

\* the section keys of a family
KeysOf(file_type) ==
    IF file_type = "GSTR1" THEN Range(GSTR1_KEYS) ELSE Range(GSTR2A_KEYS)

\* at least one input file of the family yields a fragment (a frame with at
\* least one non-blank row) for the section
HasFragment(file_type, k) ==
    \E i \in FamilyFiles(file_type) : Fragment(i, k) # <<>>

\* the merged rows of a section (none when its family has no files)
MergedRows(file_type, k) ==
    IF k \in DOMAIN SectionsOf(file_type) THEN SectionsOf(file_type)[k] ELSE <<>>

\* the name of the sheet a section is written to
SheetTitle(file_type, k) ==
    IF file_type = "GSTR1" THEN GSTR1_WORKSHEETS(k).output_name ELSE k

\* the output has a sheet of that family under the section's sheet name that
\* holds rows of the section
SheetProduced(file_type, k) ==
    \E s \in DOMAIN OutSheets :
        /\ OutSheets[s].title = SheetTitle(file_type, k)
        /\ OutSheets[s].ref[1] = file_type
        /\ \/ Range(OutSheets[s].rows) \cap Range(MergedRows(file_type, k)) # {}
           \/ OutSheets[s].ref[2] = k /\ SheetTitle(file_type, k) # COMBINED_OUTPUT

\* the per-family summary of the run records the section as "no records"
RecordedNoRecords(file_type, k) ==
    LET summary == IF file_type = "GSTR1"
                   THEN m_out[1].summary[1].gstr1_summary
                   ELSE m_out[1].summary[1].gstr2a_summary
    IN  /\ "analysis_details" \in DOMAIN summary
        /\ k \in DOMAIN summary.analysis_details
        /\ summary.analysis_details[k].status = NO_RECORDS

\* C9: for every section of either family, a merged section and its sheet are
\* produced if and only if some input file yields a fragment with a non-blank
\* row; otherwise the section is recorded as no records and has no sheet; the
\* workbook holds no empty data sheet.
C9_SheetIffFragmentElseRecorded ==
    MergeDone =>
        /\ \A file_type \in FileTypes : \A k \in KeysOf(file_type) :
              /\ HasFragment(file_type, k)
                    <=> (MergedRows(file_type, k) # <<>> /\ SheetProduced(file_type, k))
              /\ ~HasFragment(file_type, k) =>
                    (RecordedNoRecords(file_type, k) /\ ~SheetProduced(file_type, k))
        /\ \A s \in DOMAIN OutSheets : OutSheets[s].rows # <<>>

\* what does hold of the sheets: the part of C9 that is not about the record
SheetIffFragment ==
    MergeDone =>
        /\ \A file_type \in FileTypes : \A k \in KeysOf(file_type) :
              HasFragment(file_type, k)
                  <=> (MergedRows(file_type, k) # <<>> /\ SheetProduced(file_type, k))
        /\ \A s \in DOMAIN OutSheets : OutSheets[s].rows # <<>>

\* the outcome the sheet "Index" of the saved workbook shows for a section
IndexSheetOutcome(file_type, k) ==
    LET index == m_out[1].written[1].index
        rows == IF file_type = "GSTR1" THEN index.gstr1 ELSE index.gstr2a
    IN  rows[CHOOSE i \in DOMAIN rows : rows[i].name = k].analysis_output

\* C10: a section with no contributing row in any input file has no output
\* sheet and is listed in the index sheet as NO_RECORDS, for every section of
\* both families.
C10_AbsentSectionInIndex ==
    MergeDone =>
        \A file_type \in FileTypes : \A k \in KeysOf(file_type) :
            ~HasFragment(file_type, k) =>
                /\ ~SheetProduced(file_type, k)
                /\ IndexSheetOutcome(file_type, k) = NO_RECORDS

\* what does hold: such a section has no sheet
AbsentSectionHasNoSheet ==
    MergeDone =>
        \A file_type \in FileTypes : \A k \in KeysOf(file_type) :
            ~HasFragment(file_type, k) => ~SheetProduced(file_type, k)

\* the workbook holds a sheet made for a section of that family under the
\* section's key or under the name of its output group
SheetForSection(file_type, k) ==
    \E s \in DOMAIN OutSheets :
        /\ OutSheets[s].ref[1] = file_type
        /\ OutSheets[s].title \in {k, SheetTitle(file_type, k)}

\* the outcome _create_index_sheet_data computed for a section
IndexDataOutcome(file_type, k) ==
    LET rows == IF file_type = "GSTR1" THEN m_out[1].index_data[1].gstr1
                ELSE m_out[1].index_data[1].gstr2a
    IN  rows[CHOOSE i \in DOMAIN rows : rows[i].name = k].analysis_output

\* the index sheet has exactly one row for every section of the family
IndexListsEverySection(file_type) ==
    LET index == m_out[1].written[1].index
        rows == IF file_type = "GSTR1" THEN index.gstr1 ELSE index.gstr2a
    IN  \A k \in KeysOf(file_type) :
            Cardinality({i \in DOMAIN rows : rows[i].name = k}) = 1

\* C11: the index sheet lists every section of both families, and shows
\* ANALYSED for a section exactly when the workbook holds a sheet made for
\* that section of that family (under its key or its output-group name), and
\* NO_RECORDS otherwise; a sheet of the other family does not count.
C11_IndexOutcomeMatchesSheets ==
    MergeDone =>
        \A file_type \in FileTypes :
            /\ IndexListsEverySection(file_type)
            /\ \A k \in KeysOf(file_type) :
                  IndexSheetOutcome(file_type, k) =
                      IF SheetForSection(file_type, k) THEN ANALYSED ELSE NO_RECORDS

\* the same for the outcomes _create_index_sheet_data computes, which
\* _add_index_sheet does not use
IndexDataMatchesSheets ==
    MergeDone =>
        \A file_type \in FileTypes : \A k \in KeysOf(file_type) :
            IndexDataOutcome(file_type, k) =
                IF SheetForSection(file_type, k) THEN ANALYSED ELSE NO_RECORDS

\* what does hold: every section of both families has its row in the index
IndexListsAllSections ==
    MergeDone => \A file_type \in FileTypes : IndexListsEverySection(file_type)

\* the per-family summary of the run
FamilySummary(file_type) ==
    IF file_type = "GSTR1" THEN m_out[1].summary[1].gstr1_summary
    ELSE m_out[1].summary[1].gstr2a_summary

\* the section asks for the date-vs-period validation (family B has no
\* validation_required entry)
RequiresValidation(file_type, k) ==
    file_type = "GSTR1" /\ GSTR1_WORKSHEETS(k).validation_required

\* the summary of the family holds the outcome of section k: status, number
\* of merged rows, and a mismatch count that is 0 without validation
RecordsOutcome(file_type, k) ==
    /\ "analysis_details" \in DOMAIN FamilySummary(file_type)
    /\ k \in DOMAIN FamilySummary(file_type).analysis_details
    /\ \E d \in {FamilySummary(file_type).analysis_details[k]} :
          /\ d.status = IF HasFragment(file_type, k) THEN ANALYSED ELSE NO_RECORDS
          /\ d.total_records = Len(MergedRows(file_type, k))
          /\ ~RequiresValidation(file_type, k) => d.wrong_month_records = 0

\* C21: after a run the summary holds, for every section of each family, one
\* outcome with the section's status, its record count (the number of merged
\* rows) and its mismatch count, which is zero for every section that does not
\* require validation; also for a family that received no files.
C21_SummaryRecordsEverySection ==
    MergeDone =>
        \A file_type \in FileTypes : \A k \in KeysOf(file_type) :
            RecordsOutcome(file_type, k)

\* what does hold: family A, when the run has a file of family A
Gstr1SummaryRecordsEverySection ==
    (MergeDone /\ FamilyFiles("GSTR1") # {}) =>
        \A k \in KeysOf("GSTR1") : RecordsOutcome("GSTR1", k)

\* family A alone, with or without files
Gstr1SummaryRecordsAlways ==
    MergeDone => \A k \in KeysOf("GSTR1") : RecordsOutcome("GSTR1", k)

\* family B alone, when the run has a file of family B
Gstr2aSummaryRecordsEverySection ==
    (MergeDone /\ FamilyFiles("GSTR2A") # {}) =>
        \A k \in KeysOf("GSTR2A") : RecordsOutcome("GSTR2A", k)

(***************************************************************************)
(* Properties of the validator and the resolver in a run (ResolveSpec)     *)
(***************************************************************************)
\* the per-section details of family A the run returned
Gstr1DetailsOf == m_out[1].summary[1].gstr1_summary.analysis_details

\* the mismatch count the run recorded for a family A section
WrongMonthRecords(k) == Gstr1DetailsOf[k].wrong_month_records

\* the remark of a section's row in the index sheet of the workbook: the
\* count it reports, 0 when the row has no remark
IndexSheetRemark(k) ==
    LET rows == m_out[1].written[1].index.gstr1
        row == rows[CHOOSE i \in DOMAIN rows : rows[i].name = k]
    IN  IF "remarks" \in DOMAIN row THEN row.remarks ELSE 0

\* the remark _create_index_sheet_data computed for the section
IndexDataRemark(k) ==
    LET rows == m_out[1].index_data[1].gstr1
    IN  rows[CHOOSE i \in DOMAIN rows : rows[i].name = k].remarks

\* C12: a section for which the run counted n > 0 wrong-month rows has, in
\* the index sheet, a remark that reports n; a section without such rows has
\* no remark.
C12_IndexRemarkReportsWrongMonths ==
    MergeDone =>
        \A k \in DOMAIN Gstr1DetailsOf : IndexSheetRemark(k) = WrongMonthRecords(k)

\* the remark is computed, in the data _add_index_sheet does not use
IndexDataRemarkReportsWrongMonths ==
    MergeDone =>
        \A k \in DOMAIN Gstr1DetailsOf : IndexDataRemark(k) = WrongMonthRecords(k)

\* the cell of a row in the sheet column with that letter
ColumnAt(row, letter) ==
    IF letter = "D" /\ DOMAIN row.cells \cap DATE_HEADERS # {}
    THEN row.cells[CHOOSE c \in DOMAIN row.cells \cap DATE_HEADERS : TRUE]
    ELSE IF letter = "C" /\ "Invoice Number" \in DOMAIN row.cells
         THEN row.cells["Invoice Number"]
    ELSE NaN

\* the row has a transaction date, and it lies outside the month and year
\* declared for the file the row came from
DatedInOtherPeriod(row, k) ==
    LET d == ParseDate(ColumnAt(row, GSTR1_WORKSHEETS(k).date_column))
        u == UploadOfRow(row)
    IN  d # <<>> /\ <<d[2], d[1]>> # <<u.month, u.year>>

\* the family A sections the taxonomy asks to validate
ValidatedSections ==
    {k \in Range(GSTR1_KEYS) :
        /\ GSTR1_WORKSHEETS(k).validation_required
        /\ GSTR1_WORKSHEETS(k).date_column # None}

\* C13: for every validated section, the mismatch count the run records is
\* the number of the section's rows whose transaction date, taken from the
\* column the taxonomy names for the section, lies in another period than
\* the one declared for the row's file.
C13_CountIsRowsOfOtherPeriod ==
    MergeDone =>
        \A k \in ValidatedSections \cap DOMAIN Gstr1DetailsOf :
            WrongMonthRecords(k) =
                Cardinality({j \in DOMAIN MergedRows("GSTR1", k) :
                    DatedInOtherPeriod(MergedRows("GSTR1", k)[j], k)})

\* what the count is: the number of rows the validator labelled WRONG MONTH
CountIsWrongMonthLabels ==
    MergeDone =>
        \A k \in ValidatedSections \cap DOMAIN Gstr1DetailsOf :
            WrongMonthRecords(k) =
                Cardinality({j \in DOMAIN MergedRows("GSTR1", k) :
                    MergedRows("GSTR1", k)[j].validation = "WRONG MONTH"})

\* the labels of the rows the specification calls validation anomalies
ANOMALY_LABELS == {"WRONG MONTH", "NO DATE", "INVALID DATE"}

\* the number of rows of a merged section that carry an anomaly label
AnomalyRows(k) ==
    Cardinality({j \in DOMAIN MergedRows("GSTR1", k) :
        MergedRows("GSTR1", k)[j].validation \in ANOMALY_LABELS})

\* some row of the merged section carries that label
HasLabel(k, label) ==
    \E j \in DOMAIN MergedRows("GSTR1", k) :
        MergedRows("GSTR1", k)[j].validation = label

\* C22: in every validated section each row carries its label, and the rows
\* labelled WRONG MONTH, NO DATE or INVALID DATE are all counted in the
\* section's count, in the summary and in the index sheet; the run with
\* such rows succeeds.
C22_AnomaliesLabelledAndCounted ==
    MergeDone =>
        \A k \in ValidatedSections \cap DOMAIN Gstr1DetailsOf :
            /\ \A j \in DOMAIN MergedRows("GSTR1", k) :
                  MergedRows("GSTR1", k)[j].validation
                      \in ANOMALY_LABELS \cup {"CORRECT MONTH"}
            /\ WrongMonthRecords(k) = AnomalyRows(k)
            /\ IndexSheetRemark(k) = AnomalyRows(k)

\* the summary alone: its count is the number of rows with an anomaly label
AnomaliesCountedInSummary ==
    MergeDone =>
        \A k \in ValidatedSections \cap DOMAIN Gstr1DetailsOf :
            WrongMonthRecords(k) = AnomalyRows(k)

\* what does hold: every row of a validated section carries one of the four
\* labels, whatever its date cell
AnomalyRowsAreLabelled ==
    MergeDone =>
        \A k \in ValidatedSections \cap DOMAIN Gstr1DetailsOf :
            \A j \in DOMAIN MergedRows("GSTR1", k) :
                MergedRows("GSTR1", k)[j].validation
                    \in ANOMALY_LABELS \cup {"CORRECT MONTH"}

\* a finished run whose section B2B has rows of all three anomaly labels
AnomalyRun ==
    /\ MergeDone
    /\ "B2B" \in DOMAIN Gstr1DetailsOf
    /\ \A label \in ANOMALY_LABELS : HasLabel("B2B", label)

\* no such run exists
NoAnomalyRun == ~AnomalyRun

\* the workbooks of a stored file that can be read, as <<entry, sheets>>:
\* entry 0 is the file itself, entry j > 0 the j-th entry of a bundle
ReadableSources(file) ==
    IF ~file.readable THEN {}
    ELSE IF file.zip
         THEN {<<j, file.entries[j].sheets>> :
                  j \in {j \in DOMAIN file.entries :
                            file.entries[j].spreadsheet /\ file.entries[j].readable}}
    ELSE {<<0, file.sheets>>}

\* the number of non-blank rows of the first sheet that matches the section
RowsFor(sheets, k) ==
    LET i == FirstMatch(sheets, 1, k)
    IN  IF i = 0 THEN 0
        ELSE Cardinality({n \in DOMAIN sheets[i].rows : ~IsBlankRow(sheets[i].rows[n])})

\* the number of rows of a merged section that came from entry j of file i
RowsFrom(file_type, k, i, j) ==
    Cardinality({r \in DOMAIN MergedRows(file_type, k) :
                    /\ MergedRows(file_type, k)[r].path = m_files[i].id
                    /\ MergedRows(file_type, k)[r].entry = j})

TaggedWithDeclaredPeriod(file_type) ==
    \A k \in KeysOf(file_type) : \A r \in DOMAIN MergedRows(file_type, k) :
        LET row == MergedRows(file_type, k)[r]
        IN  "Month" \notin DOMAIN row.cells =>
                row.Month = GetMonthName(UploadOfRow(row).month, UploadOfRow(row).year)

\* C20: every resolved fragment without a period column of its own is
\* tagged, on every row, with the label of the month and year declared for
\* the uploaded file it came from, in both families, for workbooks and for
\* bundles.
C20_TaggedWithDeclaredPeriod ==
    MergeDone => \A file_type \in FileTypes : TaggedWithDeclaredPeriod(file_type)

\* it holds for family B, whose loop overwrites the label with the declared one
Gstr2aTaggedWithDeclaredPeriod ==
    MergeDone => TaggedWithDeclaredPeriod("GSTR2A")

(***************************************************************************)
(* Properties of a run in which one section raises (FaultSpec)             *)
(***************************************************************************)
\* the run of the same files in which nothing raises
Reference == ProcessGstData(m_files, Project1, <<1, 1>>, "none")

\* the merged rows of a section in a run whose result is ref
RowsIn(ref, file_type, k) ==
    LET sections == IF file_type = "GSTR1" THEN ref.sections[1].gstr1
                    ELSE ref.sections[1].gstr2a
    IN  IF k \in DOMAIN sections THEN sections[k] ELSE <<>>

\* the section <<family, key>> the fault of the run is in
FaultedSection ==
    CHOOSE p \in UNION {{<<file_type, k>> : k \in KeysOf(file_type)} :
                           file_type \in FileTypes} :
        RaisedAt(m_out[2], p[1], p[2], <<0>>) # ""

\* the run is over, and the section had data, so that its try block raised
SectionRaised ==
    /\ m_out # <<>>
    /\ \E i \in FamilyFiles(FaultedSection[1]) : Fragment(i, FaultedSection[2]) # <<>>

\* the sheets of the sections other than p, the combined sheet left out
SheetsNotOf(sheets, p) ==
    SelectSeq(sheets, LAMBDA sh : sh.ref # p /\ sh.title # COMBINED_OUTPUT)

\* the rows of the combined sheet (none when there is no such sheet)
CombinedRows(sheets) ==
    Concat([i \in DOMAIN sheets |->
               IF sheets[i].title = COMBINED_OUTPUT THEN sheets[i].rows ELSE <<>>])

\* the rows the sections of the combined group other than p have in the run
\* whose result is ref, in taxonomy order
GroupRowsNotOf(ref, p) ==
    Concat([i \in DOMAIN GSTR1_KEYS |->
               IF /\ GSTR1_WORKSHEETS(GSTR1_KEYS[i]).output_name = COMBINED_OUTPUT
                  /\ <<"GSTR1", GSTR1_KEYS[i]>> # p
               THEN RowsIn(ref, "GSTR1", GSTR1_KEYS[i]) ELSE <<>>])

\* the run does not fail, and every other section gives what it gives in
\* the run without the exception, in the same order
SectionFaultIsLocal ==
    SectionRaised =>
        \E ref \in {Reference} :
            /\ m_out[1].success
            /\ SheetsNotOf(OutSheets, FaultedSection)
                  = SheetsNotOf(ref.written[1].sheets, FaultedSection)
            /\ CombinedRows(OutSheets) = GroupRowsNotOf(ref, FaultedSection)
            /\ \A file_type \in FileTypes : \A k \in KeysOf(file_type) :
                  <<file_type, k>> # FaultedSection =>
                      MergedRows(file_type, k) = RowsIn(ref, file_type, k)

\* the section that raised is recorded without data
RaisedSectionRecordedEmpty ==
    (SectionRaised /\ FaultedSection[1] = "GSTR1") =>
        LET d == Gstr1DetailsOf[FaultedSection[2]]
        IN  d.status \in {ERROR_STATUS, NO_RECORDS} /\ d.total_records = 0

\* C17: when the processing of one section raises, the run does not fail, the
\* other sections of the family are processed as they are without the
\* exception, in taxonomy order, and the section that raised is recorded
\* without data and has no sheet in the workbook.
C17_SectionFaultRecovered ==
    /\ SectionFaultIsLocal
    /\ RaisedSectionRecordedEmpty
    /\ SectionRaised =>
          \A s \in DOMAIN OutSheets : OutSheets[s].ref # FaultedSection

\* without the demand that no sheet is left, the claim holds
SectionFaultRecoveredButSheet == SectionFaultIsLocal /\ RaisedSectionRecordedEmpty

\* a run in which a section with data raised while its frames were concatenated
SectionRaisedInConcat ==
    SectionRaised /\ m_out[2] \in {"GSTR1/B2BA/concat", "GSTR1/SEZ/concat",
                                   "GSTR2A/B2B/concat"}

(***************************************************************************)
(* Properties of the validator (ValidateSpec)                              *)
(***************************************************************************)
MONTH_LABELS == {"NO DATE", "INVALID DATE", "CORRECT MONTH", "WRONG MONTH", "ERROR"}

\* the validator returned
Validated == v_call.ret # <<>>

\* row i of the returned frame is row i of the frame passed in
SameRowAt(i) ==
    LET a == v_call.data[i]
        b == v_call.ret[1].data[i]
    IN  a.path = b.path /\ a.entry = b.entry /\ a.sheet = b.sheet /\ a.n = b.n

C15_ValidationOnlyAppends ==
    Validated =>
        LET out == v_call.ret[1]
        IN  /\ Len(out.data) = Len(v_call.data)
            /\ \A i \in DOMAIN out.data :
                  /\ SameRowAt(i)
                  /\ out.data[i].cells = v_call.data[i].cells
                  /\ out.data[i].Month = v_call.data[i].Month

\* what holds: a frame without a column named 'Month Validation' is left as
\* it was
OnlyAppendsWithoutLabelColumn ==
    (Validated /\ "Month Validation" \notin DOMAIN v_call.data[1].cells) =>
        \A i \in DOMAIN v_call.data :
            /\ SameRowAt(i)
            /\ v_call.ret[1].data[i].cells = v_call.data[i].cells
            /\ v_call.ret[1].data[i].Month = v_call.data[i].Month

\* the period of the date of row i of the frame passed in, read as the
\* validator reads it; <<>> when the row has no date that can be parsed
DatePeriodAt(i) ==
    LET cells == v_call.data[i].cells
        d == IF v_call.date_column \in DOMAIN cells
             THEN ParseDate(cells[v_call.date_column]) ELSE <<>>
    IN  IF d = <<>> THEN <<>> ELSE <<GetMonthName(d[2], d[1])>>

\* the rows of the frame passed in carry more than one period label
SeveralLabels ==
    Cardinality({v_call.data[i].Month : i \in DOMAIN v_call.data}) > 1

\* C28: in a validated frame whose rows carry different period labels, a
\* row is labelled CORRECT MONTH if and only if the period of its date is
\* the period label of that same row.
C28_ComparedWithOwnLabel ==
    (Validated /\ SeveralLabels) =>
        \A i \in DOMAIN v_call.data :
            v_call.ret[1].data[i].validation = "CORRECT MONTH"
                <=> DatePeriodAt(i) = <<v_call.data[i].Month>>

\* what does hold: every row is compared with the label of the first row
ComparedWithFirstLabel ==
    Validated =>
        \A i \in DOMAIN v_call.data :
            v_call.ret[1].data[i].validation = "CORRECT MONTH"
                <=> DatePeriodAt(i) = <<v_call.data[1].Month>>

\* so a frame with one label has every row compared with its own label
OwnLabelWhenOneLabel ==
    (Validated /\ ~SeveralLabels) =>
        \A i \in DOMAIN v_call.data :
            v_call.ret[1].data[i].validation = "CORRECT MONTH"
                <=> DatePeriodAt(i) = <<v_call.data[i].Month>>

(***************************************************************************)
(* Properties of the resolver on a bundle (ZipSpec)                        *)
(***************************************************************************)
ZipReturned == zip_call.pc = "returned"

OneTempFileAtMost ==
    tmp_dir \subseteq {zip_call.j} /\ (tmp_dir # {} => zip_call.temp_file_path = <<zip_call.j>>)

\* the statements of the call and the function ReadWorksheetData agree, when
\* mkstemp did not fail
ZipCallIsReadWorksheetData ==
    (ZipReturned /\ ~zip_call.no_temp) =>
        zip_call.ret[1] = ReadWorksheetData(zip_call.file, zip_call.worksheet_name)

(***************************************************************************)
(* Properties of the run records (Spec)                                    *)
(***************************************************************************)
\* the run record a call of start_analysis committed
RecordOf(c) == analyses[RowOf(analyses, calls[c].aid[1])]

\* the calls of start_analysis that returned after they committed a run record
ReturnedRuns ==
    {c \in DOMAIN calls : calls[c].pc = "returned" /\ calls[c].aid # <<>>}

\* the file a run writes its workbook to
OutputFileOf(c) == OutputFilename(ProjectOf(calls[c].project_id), calls[c].aid[1])

StatusSteps ==
    {<<"pending", "processing">>, <<"processing", "completed">>,
     <<"processing", "failed">>}

\* C1: the status of a run record only moves along pending -> processing ->
\* completed or failed: a new record starts in pending or processing, every
\* change of status is one step of that path, and a record that is completed
\* or failed keeps its status (and stays in the table) whatever happens later,
\* further runs on the same project included.
C1_StatusPath ==
    [][/\ Len(analyses') >= Len(analyses)
       /\ \A i \in DOMAIN analyses :
             /\ analyses'[i].id = analyses[i].id
             /\ \/ analyses'[i].status = analyses[i].status
                \/ <<analyses[i].status, analyses'[i].status>> \in StatusSteps
       /\ \A i \in DOMAIN analyses' \ DOMAIN analyses :
             analyses'[i].status \in {"pending", "processing"}]_vars

\* a record is completed or failed and a later run on the same project has
\* created its own record
C1_Witness ==
    \E i, j \in DOMAIN analyses :
        /\ i < j
        /\ analyses[i].status \in {"completed", "failed"}
        /\ analyses[j].project_id = analyses[i].project_id

\* C2: when start_analysis has returned, the run record it created is no
\* longer in status processing, whatever the pipeline and the persistence
\* calls after the creation of the record did.
C2_NoRecordLeftProcessing ==
    \A c \in ReturnedRuns : RecordOf(c).status \in {"completed", "failed"}

\* C3: when a step of _process_gst_data raised, the run record ends failed
\* with a non-empty error message and no output file name or path, and no
\* output file of that run exists.
C3_RaisedPipelineFails ==
    \A c \in ReturnedRuns :
        (calls[c].result # <<>> /\ ~calls[c].result[1].success) =>
            /\ RecordOf(c).status = "failed"
            /\ RecordOf(c).error_message # <<>>
            /\ RecordOf(c).output_filename = <<>>
            /\ RecordOf(c).output_file_path = <<>>
            /\ OutputFileOf(c) \notin DOMAIN disk

\* the part of C3 the code keeps: a record that was marked failed has an
\* error message and neither output file name nor path
FailedRecordHasErrorOnly ==
    \A i \in DOMAIN analyses :
        analyses[i].status = "failed" =>
            /\ analyses[i].error_message # <<>>
            /\ analyses[i].output_filename = <<>>
            /\ analyses[i].output_file_path = <<>>

\* the summary of a run holds an outcome for the section k of the family
SummaryHasOutcome(summary, file_type, k) ==
    LET family == IF file_type = "GSTR1" THEN summary.gstr1_summary
                  ELSE summary.gstr2a_summary
    IN  /\ "analysis_details" \in DOMAIN family
        /\ k \in DOMAIN family.analysis_details

\* C4: a run record with status completed carries the output file name, the
\* path of a workbook that was saved, and the summary with the outcome of
\* every section of both families.
C4_CompletedCarriesArtifacts ==
    \A i \in DOMAIN analyses :
        analyses[i].status = "completed" =>
            /\ analyses[i].output_filename # <<>>
            /\ analyses[i].output_file_path # <<>>
            /\ analyses[i].output_file_path[1] \in DOMAIN disk
            /\ disk[analyses[i].output_file_path[1]] # PARTIAL
            /\ analyses[i].analysis_summary # <<>>
            /\ \A file_type \in FileTypes :
                  \A k \in KeysOf(file_type) :
                     SummaryHasOutcome(analyses[i].analysis_summary[1], file_type, k)

\* the part of C4 the code keeps: file name, saved workbook and a summary
CompletedHasFileAndSummary ==
    \A i \in DOMAIN analyses :
        analyses[i].status = "completed" =>
            /\ analyses[i].output_filename # <<>>
            /\ analyses[i].output_file_path # <<>>
            /\ analyses[i].output_file_path[1] \in DOMAIN disk
            /\ disk[analyses[i].output_file_path[1]] # PARTIAL
            /\ analyses[i].analysis_summary # <<>>

\* the project exists and has a file in status 'uploaded'
HasInput(project_id) ==
    /\ \E p \in Projects : p.id = project_id
    /\ \E i \in DOMAIN uploads :
          /\ uploads[i].project_id = project_id
          /\ uploads[i].upload_status = "uploaded"

\* C5: a call of start_analysis for a project that does not exist or has no
\* file in status 'uploaded' returns a failure and changes nothing: no run
\* record is created and no output file is written.
C5_NoInputNoRun ==
    [][(Len(calls') = Len(calls) + 1
        /\ ~HasInput(calls'[Len(calls')].project_id)) =>
          /\ calls'[Len(calls')].pc = "returned"
          /\ calls'[Len(calls')].ret # <<>>
          /\ ~calls'[Len(calls')].ret[1].success
          /\ calls'[Len(calls')].aid = <<>>
          /\ analyses' = analyses
          /\ disk' = disk
          /\ uploads' = uploads]_vars

\* start_analysis was refused for an existing project whose only files are
\* not in status 'uploaded', and for a project that does not exist
C5_Witness ==
    /\ uploads # <<>>
    /\ \E c \in DOMAIN calls :
          /\ calls[c].project_id = "p1"
          /\ calls[c].ret = Failure("No uploaded files found")
    /\ \E c \in DOMAIN calls : calls[c].ret = Failure("Project not found")
    /\ analyses = <<>>
    /\ DOMAIN disk = {}

\* the calls of start_analysis that ran _process_gst_data
PipelineRuns == {c \in DOMAIN calls : calls[c].result # <<>>}

\* C16: any two distinct runs, repeated runs on one project included, write
\* to different output file names, so that no run overwrites the output file
\* of another.
C16_DistinctRunsDistinctFiles ==
    \A c, d \in PipelineRuns : c # d => OutputFileOf(c) # OutputFileOf(d)

\* what holds: two runs whose ids differ in their first 8 characters write
\* to different files
DistinctPrefixDistinctFiles ==
    \A c, d \in PipelineRuns :
        Prefix8(calls[c].aid[1]) # Prefix8(calls[d].aid[1])
            => OutputFileOf(c) # OutputFileOf(d)

(***************************************************************************)
(* Properties of the sheet resolver (SheetSpec)                            *)
(***************************************************************************)
\* the call of _read_excel_worksheet has returned
SheetReturned == x_call.ret # <<>>

\* the pairs <<section key, sheet name>> of the check in which, ignoring
\* case, the key is contained in the sheet name or the sheet name in the key
CONTAINED ==
    {<<"B2B", "b2b">>, <<"B2B", "B2B">>, <<"B2B", "B2B (4A)">>,
     <<"B2B", "Table B2B">>, <<"B2B", "B2BA">>,
     <<"B2BA", "b2b">>, <<"B2BA", "B2B">>, <<"B2BA", "B2BA">>,
     <<"B2CL", "B2C">>}

\* the sheets of the workbook of the call that the key may resolve to
Candidates ==
    {i \in DOMAIN x_call.sheets :
        <<x_call.worksheet_name, x_call.sheets[i].name>> \in CONTAINED}

\* C23: the loop of resolve settles on a sheet exactly when the workbook has
\* a sheet whose name contains the key or is contained in it, ignoring case,
\* and then on such a sheet ('B2B' against 'b2b', 'B2B (4A)', 'Table B2B',
\* not against 'B2C'); when no sheet matches, the call returns None.
C23_ResolvesIffContained ==
    (SheetReturned /\ x_call.readable) =>
        /\ x_call.ret[1].sheet_name # None <=> Candidates # {}
        /\ x_call.ret[1].sheet_name # None =>
              <<x_call.worksheet_name, x_call.ret[1].sheet_name>> \in CONTAINED
        /\ Candidates = {} => x_call.ret[1].df = <<>>

\* a returned call for the key B2B that read the rows of a sheet 'Table B2B'
\* of a workbook that has a sheet 'B2C' before it
C23_Witness ==
    /\ SheetReturned /\ x_call.readable
    /\ x_call.worksheet_name = "B2B"
    /\ Len(x_call.sheets) = 2
    /\ x_call.sheets[1].name = "B2C"
    /\ x_call.ret[1].sheet_name = "Table B2B"
    /\ x_call.ret[1].df # <<>>

\* the sheets of the workbook whose name is the key, ignoring case
ExactSheets(worksheet_name) ==
    {i \in DOMAIN x_call.sheets :
        Upper(Chars(x_call.sheets[i].name)) = Upper(Chars(worksheet_name))}

\* C26: when the workbook has a sheet whose name equals the key ignoring
\* case, the call reads that sheet, wherever it stands in the workbook; so
\* two different keys that both have such a sheet never read the same sheet.
C26_ExactSheetIsRead ==
    (SheetReturned /\ x_call.readable) =>
        /\ \A i \in ExactSheets(x_call.worksheet_name) :
              x_call.ret[1].sheet_name = x_call.sheets[i].name
        /\ \A k1, k2 \in SheetKeys :
              (k1 # k2 /\ ExactSheets(k1) # {} /\ ExactSheets(k2) # {}) =>
                  FirstMatch(x_call.sheets, 1, k1) # FirstMatch(x_call.sheets, 1, k2)

\* the first clause alone
ExactSheetIsRead ==
    (SheetReturned /\ x_call.readable) =>
        \A i \in ExactSheets(x_call.worksheet_name) :
            x_call.ret[1].sheet_name = x_call.sheets[i].name

\* the second clause alone
ExactKeysReadDifferentSheets ==
    (SheetReturned /\ x_call.readable) =>
        \A k1, k2 \in SheetKeys :
            (k1 # k2 /\ ExactSheets(k1) # {} /\ ExactSheets(k2) # {}) =>
                FirstMatch(x_call.sheets, 1, k1) # FirstMatch(x_call.sheets, 1, k2)

\* what does hold: the sheet named as the key is read when no sheet before
\* it contains the key or is contained in it
ExactSheetIsReadWhenFirst ==
    (SheetReturned /\ x_call.readable) =>
        \A i \in ExactSheets(x_call.worksheet_name) :
            (\A j \in Candidates : j >= i) =>
                x_call.ret[1].sheet_name = x_call.sheets[i].name

(***************************************************************************)
(* Properties of the sort (SortSpec)                                       *)
(***************************************************************************)
\* sorted() has returned
SortReturned == s_call.ret # <<>>

\* the place of each calendar month, January to December, in the fiscal year
FISCAL_PLACE == <<10, 11, 12, 1, 2, 3, 4, 5, 6, 7, 8, 9>>

\* Python's a < b on the sort keys
KeyLess(a, b) == a[1] < b[1] \/ (a[1] = b[1] /\ a[2] < b[2])

\* C24: for every month of 1..12 and every year the second component of the
\* sort key is April = 1, ..., December = 9, January = 10, ..., March = 12, and
\* the key is strictly increasing from April of a year Y over December of Y
\* and January of Y+1 to March of Y+1.
C24_FiscalKeyIncreasing ==
    SortReturned =>
        /\ \A i \in DOMAIN s_call.files :
              s_call.ret[1].keys[i][2] = FISCAL_PLACE[s_call.files[i].month]
        /\ \A i, j \in DOMAIN s_call.files :
              (/\ FiscalYear(s_call.files[i].month, s_call.files[i].year)
                     = FiscalYear(s_call.files[j].month, s_call.files[j].year)
               /\ FISCAL_PLACE[s_call.files[i].month]
                     < FISCAL_PLACE[s_call.files[j].month]) =>
                  KeyLess(s_call.ret[1].keys[i], s_call.ret[1].keys[j])

\* a sort of a file of January 2022 and a file of December 2021, in that
\* order, that put the file of December first
C24_Witness ==
    /\ SortReturned
    /\ Len(s_call.files) = 2
    /\ <<s_call.files[1].month, s_call.files[1].year>> = <<1, 2022>>
    /\ <<s_call.files[2].month, s_call.files[2].year>> = <<12, 2021>>
    /\ s_call.ret[1].keys[2][2] = 9 /\ s_call.ret[1].keys[1][2] = 10
    /\ s_call.ret[1].sorted_uploads[1].id = 2

\* (year, month) of a is not after that of b
NotAfter(a, b) == a.year < b.year \/ (a.year = b.year /\ a.month <= b.month)

\* the sorted list is in calendar order
Chronological(sorted_uploads) ==
    \A i, j \in DOMAIN sorted_uploads :
        i < j => NotAfter(sorted_uploads[i], sorted_uploads[j])

\* C27: the order in which the files are processed is calendar-chronological
\* for any files with valid months, also when they span several fiscal years.
C27_ProcessedChronologically ==
    SortReturned => Chronological(s_call.ret[1].sorted_uploads)

\* what does hold: the files of one fiscal year are in calendar order
ChronologicalInOneFiscalYear ==
    (/\ SortReturned
     /\ \A i, j \in DOMAIN s_call.files :
           FiscalYear(s_call.files[i].month, s_call.files[i].year)
               = FiscalYear(s_call.files[j].month, s_call.files[j].year)) =>
        Chronological(s_call.ret[1].sorted_uploads)

\* and the sorted list holds the files that were passed, each once
SortedIsPermutation ==
    SortReturned =>
        /\ Len(s_call.ret[1].sorted_uploads) = Len(s_call.files)
        /\ Range(s_call.ret[1].sorted_uploads) = Range(s_call.files)

(***************************************************************************)
(* Properties of the period label (LabelSpec)                              *)
(***************************************************************************)
\* _get_month_name has returned
LabelReturned == l_call.ret # <<>>

\* the three-letter name of a month of 1..12
MonthAbbrev(month) ==
    CASE month = 1 -> "Jan" [] month = 2 -> "Feb" [] month = 3 -> "Mar"
      [] month = 4 -> "Apr" [] month = 5 -> "May" [] month = 6 -> "Jun"
      [] month = 7 -> "Jul" [] month = 8 -> "Aug" [] month = 9 -> "Sep"
      [] month = 10 -> "Oct" [] month = 11 -> "Nov" [] month = 12 -> "Dec"

\* the label "MMM-YY" of a month of 1..12 and a year of two or more digits
PeriodLabel(month, year) ==
    [mon |-> MonthAbbrev(month), yy |-> <<(year \div 10) % 10, year % 10>>,
     raw |-> ""]

\* C25: for a month of 1..12 the label is the month's three-letter name, a
\* dash and the last two digits of the year (4, 2021 gives 'Apr-21'); for a
\* month outside 1..12 it is the invalid marker with the year, and not the
\* label of any month.
C25_LabelOrInvalidMarker ==
    LabelReturned =>
        /\ l_call.month \in 1..12 =>
              l_call.ret[1] = PeriodLabel(l_call.month, l_call.year)
        /\ (l_call.month = 4 /\ l_call.year = 2021) =>
              l_call.ret[1] = [mon |-> "Apr", yy |-> <<2, 1>>, raw |-> ""]
        /\ l_call.month \notin 1..12 =>
              /\ l_call.ret[1].mon = "Invalid"
              /\ \A month \in 1..12, year \in LabelYears :
                    l_call.ret[1] # PeriodLabel(month, year)

\* the call for month 13 of 2021 returned the marker 'Invalid-2021'
C25_Witness ==
    /\ LabelReturned
    /\ l_call.month = 13 /\ l_call.year = 2021
    /\ l_call.ret[1] = [mon |-> "Invalid", yy |-> <<2, 0, 2, 1>>, raw |-> ""]

(***************************************************************************)
(* Properties of the record counts of family A (ResolveSpec)               *)
(***************************************************************************)
RECURSIVE FragmentRows(_, _)
\* the rows of the fragments resolve yields for section k from the files of
\* family A from file i on (an empty fragment has none)
FragmentRows(k, i) ==
    IF i > Len(m_files) THEN 0
    ELSE (IF m_files[i].file_type = "GSTR1" THEN Len(Fragment(i, k)) ELSE 0)
         + FragmentRows(k, i + 1)

RECURSIVE GroupRecords(_)
\* the sum of total_records of the sections of the combined group among keys
GroupRecords(keys) ==
    IF keys = <<>> THEN 0
    ELSE (IF Head(keys) \in GroupKeys
          THEN Gstr1DetailsOf[Head(keys)].total_records ELSE 0)
         + GroupRecords(Tail(keys))

StoredValid == st_call.ret # <<>> /\ st_call.ret[1].validation_status = "valid"

\* C30: the upload record stored for a file whose name passes validation
\* carries the month and the year written in the name, so that the file is
\* ordered and labelled by that period.
C30_StoredPeriodIsNamePeriod ==
    StoredValid =>
        \E row \in {st_call.ret[1].file_upload} :
            /\ row.month = st_call.filename.month
            /\ row.year = st_call.filename.year
            /\ GetMonthName(row.month, row.year)
                  = GetMonthName(st_call.filename.month, st_call.filename.year)
            /\ SortKey(row) = SortKey(st_call.filename)

\* what does hold: the month is the month of the name, the year is 2024
\* whatever the name says, and the row is in file_uploads
StoredMonthOfNameYear2024 ==
    StoredValid =>
        /\ st_call.ret[1].file_upload.month = st_call.filename.month
        /\ st_call.ret[1].file_upload.year = 2024
        /\ uploads = <<st_call.ret[1].file_upload>>

\* a name passes validation exactly when its family is known, the pattern
\* matches, the month is 1..12 and the year 2017..2030
ValidIffWellFormed ==
    st_call.ret # <<>> =>
        (st_call.ret[1].validation_status = "valid"
            <=> /\ st_call.filename.family \in {"GSTR1", "GSTR2A"}
                /\ st_call.filename.shaped
                /\ st_call.filename.month \in 1..12
                /\ st_call.filename.year \in 2017..2030)
====
